---------------------------- MODULE Spec2Model ----------------------------
(***************************************************************************)
(* A model of the resilience logic of the data_fetcher repository:         *)
(*   - utils.RateLimiter      (adaptive delay with exponential backoff)    *)
(*   - utils.CircuitBreaker   (closed / open / half-open context manager)  *)
(*   - fetch_agents           (fetch_page retry loop, main, worker_loop,   *)
(*                             db_writer)                                  *)
(*   - owner_fetcher          (fetch_owner_for_rera, the owners table and  *)
(*                             update_db_with_owner_details)               *)
(*   - utils                  (has_owner_details, extract_owner_details,   *)
(*                             serialize_for_db, deserialize_from_db)      *)
(*   - csv_rera_to_owner_details (get_owner_details, send_to_telegram     *)
(*                             and the list of used RERAs)                 *)
(*   - fetch_all_listings     (fetch_page and the "Start Scraping"         *)
(*                             handler of fetch.py)                        *)
(* Each part has its own specification (SpecRL, SpecCB, SpecFP, SpecFA,    *)
(* ...); the variables of the other parts keep their initial value under   *)
(* it.                                                                     *)
(***************************************************************************)
EXTENDS Integers, Sequences, FiniteSets, TLC

VARIABLES
    limiter,      \* the RateLimiter object: a record of its attributes
    rl_last,      \* the RateLimiter method that ran last ("init" after __init__)
    rl_prev,      \* the limiter's attributes before that method ran
    rl_calls,     \* the RateLimiter methods called since __init__, in order, while
                  \* they are a record_failure and then a record_success; <<"other">>
                  \* after any other sequence of calls
    breaker,      \* the CircuitBreaker object: a record of its attributes
    cb_pc,        \* "idle", or "body" inside a with-block on the breaker
    cb_call,      \* the last CircuitBreaker operation: its name, the breaker before
                  \* it, the time it ran and what the with statement raised
    cb_run,       \* failures recorded since the last success, reset or __init__
    cb_prev_run,  \* the value cb_run had when the last success was recorded
    fp,           \* one call of fetch_agents.fetch_page: its arguments, its loop
                  \* variable, what it did so far and what it returned
    env,          \* what fetch_agents runs against: the page from which on the API
                  \* answers with an empty list, and whether the database opens
    main,         \* fetch_agents.main: where it is, its --dry-run and --delay
                  \* arguments, the agents of page 1 and how many it has queued
    wk,           \* the pool's workers: for each, where worker_loop is, its page,
                  \* the agents of that page, how many it has queued, its last
                  \* step, last_request_time, when its sleep ends and the time
                  \* between its last two requests
    q,            \* the queue between main, the workers and db_writer
    stop_event,   \* threading.Event shared by main, the workers and db_writer
    next_page,    \* counter['next_page']
    writer,       \* db_writer: where it is, the rows inserted, pending and committed
    hist,         \* what happened so far: fetch_page calls per page, the pages whose
                  \* fetch failed, the items ever queued, who set stop_event, the
                  \* pages get_next_page handed out (in order, up to the first after
                  \* MaxPage), when the pool's last request started and how long
                  \* after the one before
    fo,           \* one call of owner_fetcher.fetch_owner_for_rera: where it is, the
                  \* polls it made, the last response, what it did with the chat
                  \* (in order), what each poll returned, its calls on the
                  \* rate limiter and what it returned
    ut,           \* one call of a function of utils: its name, its arguments and,
                  \* when it has returned, its result
    owners,       \* the owners database: whether its file is there, whether the
                  \* owners table is, the rows of the table, the last id given
    upd,          \* the calls of owner_fetcher.update_db_with_owner_details: where
                  \* each caller is, with the arguments of its call or its result;
                  \* per listing, the arguments of the last call that returned
                  \* True, whether a call updated its row, the id of its row
    used_reras,   \* the list 'reras' of data/used_reras.json
    cr,           \* csv_rera_to_owner_details.get_owner_details: its runs so far,
                  \* the listings of the run going on, where send_to_telegram
                  \* is, the responses, and over all runs the RERAs sent, those
                  \* whose exchange completed and those sent after that
    pf,           \* one call of fetch_all_listings' fetch_page: max_retries, its
                  \* retry_count, the requests made, the waits, the errors and
                  \* the result
    sc,           \* one run of the "Start Scraping" handler: where it is, the
                  \* names it has bound and their values, the pages whose
                  \* future has not completed, what the report showed
    now           \* the wall clock (time.time(), datetime.now) in whole seconds

rl_vars == <<limiter, rl_last, rl_prev, rl_calls>>

cb_vars == <<breaker, cb_pc, cb_call, cb_run, cb_prev_run>>

fa_vars == <<env, main, wk, q, stop_event, next_page, writer, hist>>

ow_vars == <<fo>>

db_vars == <<owners, upd>>

cv_vars == <<used_reras, cr>>

sc_vars == <<pf, sc>>

vars == <<rl_vars, cb_vars, fp, fa_vars, ow_vars, ut, db_vars, cv_vars, sc_vars, now>>

\* A step of one part leaves the objects of the other parts alone.
OnlyRL ==
    UNCHANGED <<cb_vars, fp, fa_vars, ow_vars, ut, db_vars, cv_vars, sc_vars>>
OnlyCB ==
    UNCHANGED <<rl_vars, fp, fa_vars, ow_vars, ut, db_vars, cv_vars, sc_vars>>
OnlyFP ==
    UNCHANGED <<rl_vars, cb_vars, fa_vars, ow_vars, ut, db_vars, cv_vars, sc_vars, now>>
OnlyFA ==
    UNCHANGED <<rl_vars, cb_vars, fp, ow_vars, ut, db_vars, cv_vars, sc_vars, now>>
OnlyOW ==
    UNCHANGED <<cb_vars, fp, fa_vars, ut, db_vars, cv_vars, sc_vars>>
OnlyUT ==
    UNCHANGED <<rl_vars, cb_vars, fp, fa_vars, ow_vars, db_vars, cv_vars, sc_vars, now>>
OnlyDB ==
    UNCHANGED <<rl_vars, cb_vars, fp, fa_vars, ow_vars, ut, cv_vars, sc_vars, now>>
OnlyCV ==
    UNCHANGED <<rl_vars, cb_vars, fp, fa_vars, ow_vars, ut, db_vars, sc_vars, now>>
OnlySC ==
    UNCHANGED <<rl_vars, cb_vars, fp, fa_vars, ow_vars, ut, db_vars, cv_vars, now>>

---------------------------------------------------------------------------
(* Bounds of the model. *)

\* Significant bits of the modelled binary floating point (a Python float has 53).
Precision == 4
\* record_failure calls in a row that the model follows.
MaxFailures == 5
\* The last second of the clock.
MaxTime == 2
\* CircuitBreaker.failure_count values that the model follows.
MaxCount == 4
\* The last page number of the agents API that the model follows.
MaxPage == 2
\* The most messages that one get_messages call returns (limit=10).
MaxMessages == 2
\* The most agents on one page of the agents API (per_page is 24).
MaxAgents == 1
\* time.time() when main starts, in seconds (later than any --delay).
StartTime == 10
\* The most items of a serialised list, the most keys of a serialised dict.
MaxLen == 2
\* The most symbols of a string that is deserialised as it is.
MaxText == 3
\* The most response texts in one call of has_owner_details or
\* extract_owner_details.
MaxTexts == 3
\* The most characters of a rera argument.
MaxRera == 2
\* Rows of a CSV file with a RERA.
MaxRows == 2
\* Runs of get_owner_details that the model follows.
MaxRuns == 2
\* The largest "Max retries per page" (the sidebar allows up to 10).
MaxRetries == 2
\* The largest meta.total_count of a response.
MaxTotal == 4
\* The largest "Listings per page" (the sidebar allows up to 100).
MaxLimit == 2

---------------------------------------------------------------------------
(***************************************************************************)
(* Python floats.  A positive float is [m |-> mantissa, e |-> exponent],   *)
(* of value m * 2^e with 2^(Precision-1) <= m < 2^Precision.  Every        *)
(* operation rounds its exact result to the nearest float, ties to the     *)
(* even mantissa, as IEEE 754 binary arithmetic does.                      *)
(***************************************************************************)

\* n/d rounded to the nearest integer, ties to even.
RoundHalfEven(n, d) ==
    LET quo == n \div d
        rem == n % d
    IN  IF 2 * rem < d THEN quo
        ELSE IF 2 * rem > d THEN quo + 1
        ELSE IF quo % 2 = 0 THEN quo ELSE quo + 1

\* The float nearest to the exact value (n / d) * 2^e, for n > 0 and d > 0.
RECURSIVE Normalize(_, _, _)
Normalize(n, d, e) ==
    IF n < d * 2^(Precision - 1) THEN Normalize(2 * n, d, e - 1)
    ELSE IF n >= d * 2^Precision THEN Normalize(n, 2 * d, e + 1)
    ELSE LET m == RoundHalfEven(n, d)
         IN  IF m = 2^Precision
                THEN [m |-> 2^(Precision - 1), e |-> e + 1]
                ELSE [m |-> m, e |-> e]

\* The float literal n/d (what float("n/d") evaluates to).
Float(n, d) == Normalize(n, d, 0)

\* x * y and x / y in float arithmetic.
FMul(x, y) == Normalize(x.m * y.m, 1, x.e + y.e)
FDiv(x, y) == Normalize(x.m, y.m, x.e - y.e)

\* Exact comparisons of floats.
FLess(x, y) ==
    LET lo == IF x.e < y.e THEN x.e ELSE y.e
    IN  x.m * 2^(x.e - lo) < y.m * 2^(y.e - lo)
FLeq(x, y) == ~FLess(y, x)
FMax(x, y) == IF FLess(x, y) THEN y ELSE x
FMin(x, y) == IF FLess(y, x) THEN y ELSE x

\* Exact comparison of a whole number of seconds with a float: k < x.
IntLessF(k, x) ==
    IF x.e >= 0 THEN k < x.m * 2^(x.e) ELSE k * 2^(0 - x.e) < x.m

---------------------------------------------------------------------------
(***************************************************************************)
(* utils.RateLimiter                                                       *)
(***************************************************************************)

\* Constructor arguments the model draws from: 0 < min_delay <= max_delay,
\* backoff_factor >= 1, jitter >= 0 (whole seconds).
MinDelays == {Float(1, 10), Float(13, 8)}
MaxDelays == {Float(1, 1), Float(13, 8), Float(4, 1)}
BackoffFactors == {Float(1, 1), Float(13, 8), Float(2, 1)}
Jitters == {0, 1}

RateLimiter_init(min_delay, max_delay, backoff_factor, jitter) ==
    [min_delay |-> min_delay,
     max_delay |-> max_delay,
     backoff_factor |-> backoff_factor,
     jitter |-> jitter,
     current_delay |-> min_delay,
     last_request_time |-> 0,
     failure_count |-> 0]

\* A success that forgets the floor: current_delay / backoff_factor.
SuccessDelay_NoFloor(l) == FDiv(l.current_delay, l.backoff_factor)

\* current_delay after record_success: max(min_delay, current_delay / backoff_factor)
SuccessDelay(l) == FMax(l.min_delay, FDiv(l.current_delay, l.backoff_factor))

\* A failure that forgets the ceiling: current_delay * backoff_factor.
FailureDelay_NoCeiling(l) == FMul(l.current_delay, l.backoff_factor)

\* current_delay after record_failure: min(max_delay, current_delay * backoff_factor)
FailureDelay(l) == FMin(l.max_delay, FMul(l.current_delay, l.backoff_factor))

\* The times at which wait() can return when called at time `now`: it sleeps
\* max(0, current_delay - time_since_last + uniform(-jitter, jitter)) seconds
\* if time_since_last < current_delay, and not at all otherwise.
WaitReturnTimes(l) ==
    IF IntLessF(now - l.last_request_time, l.current_delay)
    THEN {t \in now..MaxTime :
            ~IntLessF(t - l.last_request_time + l.jitter, l.current_delay)}
    ELSE {now}

\* The record of one more method call.
Called(op) ==
    /\ rl_last' = op
    /\ rl_prev' = limiter
    /\ rl_calls' = LET calls == Append(rl_calls, op)
                   IN  IF calls \in {<<"record_failure">>,
                                     <<"record_failure", "record_success">>}
                          THEN calls
                          ELSE <<"other">>

RateLimiter_wait ==
    /\ \E t \in WaitReturnTimes(limiter) :
         /\ now' = t
         /\ limiter' = [limiter EXCEPT !.last_request_time = t]
    /\ Called("wait")
    /\ OnlyRL

\* A record_success that leaves failure_count alone.
RateLimiter_record_success_KeepCount ==
    /\ limiter' = [limiter EXCEPT !.current_delay = SuccessDelay(limiter)]
    /\ Called("record_success")
    /\ OnlyRL
    /\ UNCHANGED now

RateLimiter_record_success ==
    /\ limiter' = [limiter EXCEPT !.failure_count = 0,
                                  !.current_delay = SuccessDelay(limiter)]
    /\ Called("record_success")
    /\ OnlyRL
    /\ UNCHANGED now

RateLimiter_record_failure ==
    /\ limiter.failure_count < MaxFailures
    /\ limiter' = [limiter EXCEPT !.failure_count = @ + 1,
                                  !.current_delay = FailureDelay(limiter)]
    /\ Called("record_failure")
    /\ OnlyRL
    /\ UNCHANGED now

\* A reset that leaves last_request_time alone.
RateLimiter_reset_KeepTime ==
    /\ limiter' = [limiter EXCEPT !.current_delay = limiter.min_delay,
                                  !.failure_count = 0]
    /\ Called("reset")
    /\ OnlyRL
    /\ UNCHANGED now

RateLimiter_reset ==
    /\ limiter' = [limiter EXCEPT !.current_delay = limiter.min_delay,
                                  !.failure_count = 0,
                                  !.last_request_time = 0]
    /\ Called("reset")
    /\ OnlyRL
    /\ UNCHANGED now

\* Time passes between two calls.
Tick ==
    /\ now < MaxTime
    /\ now' = now + 1

TickRL == Tick /\ UNCHANGED rl_vars /\ OnlyRL

\* The limiter as constructed.
FreshRL(mn, mx, bf, j) ==
    /\ limiter = RateLimiter_init(mn, mx, bf, j)
    /\ rl_last = "init"
    /\ rl_prev = limiter
    /\ rl_calls = << >>

---------------------------------------------------------------------------
(***************************************************************************)
(* utils.CircuitBreaker                                                    *)
(***************************************************************************)

\* last_failure_time = None
None == -1

\* Constructor arguments the model draws from (expected_exception is the class
\* that decides whether an exception of the body is "expected" or "other").
FailureThresholds == {1, 2, 3}
RecoveryTimeouts == {0, 1, 2}

\* What the body of a with-block does: it completes ("none"), raises an
\* instance of expected_exception ("expected") or raises another exception.
BodyResults == {"none", "expected", "other"}

CircuitBreaker_init(failure_threshold, recovery_timeout) ==
    [failure_threshold |-> failure_threshold,
     recovery_timeout |-> recovery_timeout,
     failure_count |-> 0,
     last_failure_time |-> None,
     state |-> "closed"]

\* A recovery check that ignores the time.
CanAttemptRecovery_Always(b, t) == TRUE

\* _can_attempt_recovery at time t
CanAttemptRecovery(b, t) ==
    IF b.last_failure_time = None THEN TRUE
    ELSE t - b.last_failure_time >= b.recovery_timeout

\* A record_failure that opens one failure late.
RecordFailure_Late(b, t) ==
    LET c == [b EXCEPT !.failure_count = @ + 1, !.last_failure_time = t]
    IN  IF c.failure_count > c.failure_threshold
           THEN [c EXCEPT !.state = "open"]
           ELSE c

\* A record_failure that does not note the time.
RecordFailure_NoTime(b, t) ==
    LET c == [b EXCEPT !.failure_count = @ + 1]
    IN  IF c.failure_count >= c.failure_threshold
           THEN [c EXCEPT !.state = "open"]
           ELSE c

\* the breaker after record_failure at time t
RecordFailure(b, t) ==
    LET c == [b EXCEPT !.failure_count = @ + 1, !.last_failure_time = t]
    IN  IF c.failure_count >= c.failure_threshold
           THEN [c EXCEPT !.state = "open"]
           ELSE c

\* A record_success that leaves failure_count alone.
RecordSuccess_KeepCount(b) == [b EXCEPT !.state = "closed"]

\* A record_success that leaves the state alone.
RecordSuccess_KeepState(b) == [b EXCEPT !.failure_count = 0]

\* the breaker after record_success
RecordSuccess(b) == [b EXCEPT !.failure_count = 0, !.state = "closed"]

\* An __exit__ that never suppresses.
ExitSuppresses_Never(exc) == FALSE

\* An __exit__ that suppresses whatever the body raised.
ExitSuppresses_Always(exc) == exc # "none"

\* __exit__'s return value: True (the exception is suppressed) exactly when
\* exc_type is set and is a subclass of expected_exception.
ExitSuppresses(exc) == exc = "expected"

\* The record of one more operation; raised is what reaches the caller of the
\* with statement ("none" outside with statements).
CalledCB(op, raised) ==
    cb_call' = [op |-> op, before |-> breaker, at |-> now, raised |-> raised]

\* with breaker: ... entered (__enter__)
CircuitBreaker_enter ==
    /\ cb_pc = "idle"
    /\ IF breaker.state = "open"
       THEN IF CanAttemptRecovery(breaker, now)
            THEN /\ breaker' = [breaker EXCEPT !.state = "half-open"]
                 /\ cb_pc' = "body"
                 /\ CalledCB("enter", "none")
            ELSE /\ UNCHANGED <<breaker, cb_pc>>
                 /\ CalledCB("enter", "CircuitBreakerOpenError")
       ELSE /\ UNCHANGED breaker
            /\ cb_pc' = "body"
            /\ CalledCB("enter", "none")
    /\ UNCHANGED <<cb_run, cb_prev_run, now>>
    /\ OnlyCB

\* The body ends with result exc, and __exit__ runs.
CircuitBreaker_exit ==
    /\ cb_pc = "body"
    /\ \E exc \in BodyResults :
         /\ IF exc = "expected"
            THEN /\ breaker.failure_count < MaxCount
                 /\ breaker' = RecordFailure(breaker, now)
                 /\ cb_run' = cb_run + 1
                 /\ UNCHANGED cb_prev_run
            ELSE /\ breaker' = RecordSuccess(breaker)
                 /\ cb_run' = 0
                 /\ cb_prev_run' = cb_run
         /\ CalledCB("exit_" \o exc,
                     IF exc # "none" /\ ~ExitSuppresses(exc) THEN "body" ELSE "none")
    /\ cb_pc' = "idle"
    /\ UNCHANGED now
    /\ OnlyCB

\* breaker.record_failure() called directly, between with-blocks or by the body
\* of one
CircuitBreaker_record_failure ==
    /\ cb_pc \in {"idle", "body"}
    /\ breaker.failure_count < MaxCount
    /\ breaker' = RecordFailure(breaker, now)
    /\ cb_run' = cb_run + 1
    /\ CalledCB("record_failure", "none")
    /\ UNCHANGED <<cb_pc, cb_prev_run, now>>
    /\ OnlyCB

\* breaker.record_success() called directly
CircuitBreaker_record_success ==
    /\ cb_pc \in {"idle", "body"}
    /\ breaker' = RecordSuccess(breaker)
    /\ cb_run' = 0
    /\ cb_prev_run' = cb_run
    /\ CalledCB("record_success", "none")
    /\ UNCHANGED <<cb_pc, now>>
    /\ OnlyCB

\* breaker.reset()
CircuitBreaker_reset ==
    /\ cb_pc \in {"idle", "body"}
    /\ breaker' = [breaker EXCEPT !.failure_count = 0,
                                  !.last_failure_time = None,
                                  !.state = "closed"]
    /\ cb_run' = 0
    /\ cb_prev_run' = 0
    /\ CalledCB("reset", "none")
    /\ UNCHANGED <<cb_pc, now>>
    /\ OnlyCB

TickCB == Tick /\ UNCHANGED cb_vars /\ OnlyCB

\* The breaker as constructed.
FreshCB(failure_threshold, recovery_timeout) ==
    /\ breaker = CircuitBreaker_init(failure_threshold, recovery_timeout)
    /\ cb_pc = "idle"
    /\ cb_call = [op |-> "init", before |-> breaker, at |-> 0, raised |-> "none"]
    /\ cb_run = 0
    /\ cb_prev_run = 0

---------------------------------------------------------------------------
(***************************************************************************)
(* fetch_agents.fetch_page, called on the session of requests_session()    *)
(***************************************************************************)

\* fetch_page(session, page, max_retries=5): every caller takes the default.
max_retries == 5
\* base_delay = 2.0
base_delay == 2
\* requests_session(retries=5, ...): Retry(total=retries, ...)
retries == 5
\* Retry(status_forcelist=(500, 502, 503, 504), allowed_methods=GET,
\* raise_on_status=False), mounted on the session for http:// and https://
status_forcelist == {500, 502, 503, 504}

\* What one HTTP request of the session can end in: a response with a status
\* code, or an exception of requests (a timeout, a connection error, any other).
Statuses == {200, 404, 429, 500, 501}
ExceptionKinds == {"Timeout", "ConnectionError", "Exception"}
Response(status, retry_after) ==
    [kind |-> "response", status |-> status, retry_after |-> retry_after]
Raised(kind) == [kind |-> kind, status |-> 0, retry_after |-> FALSE]
NoOutcome == [kind |-> "none", status |-> 0, retry_after |-> FALSE]
Outcomes ==
    {Response(st, FALSE) : st \in Statuses}
    \cup {Response(429, TRUE)}            \* a 429 with a Retry-After header
    \cup {Raised(k) : k \in ExceptionKinds}

\* The adapter sends the request again, up to `retries` times per session.get,
\* after a response whose status is in status_forcelist, after a 413, 429 or
\* 503 that carries a Retry-After header, and after a timeout or a connection
\* error; with raise_on_status=False the last response is returned when the
\* retries are used up.
AdapterRetries(o) ==
    \/ o.kind = "response" /\ o.status \in status_forcelist
    \/ o.kind = "response" /\ o.retry_after /\ o.status \in {413, 429, 503}
    \/ o.kind \in {"Timeout", "ConnectionError"}

\* What session.get(API_URL, params, timeout=60) can do: <<n, o>>, n HTTP
\* requests of which the last ended in o.
SessionGet ==
    {<<n, o>> \in (1..(retries + 1)) \X Outcomes :
        n < retries + 1 => ~AdapterRetries(o)}

\* A fetch_page whose last handler is missing: only Timeout and ConnectionError
\* are caught.
Caught_NoCatchAll(kind) == kind \in {"Timeout", "ConnectionError"}

\* The except clauses of fetch_page: Timeout, ConnectionError, Exception.
Caught(kind) == kind \in {"Timeout", "ConnectionError", "Exception"}

\* The call fetch_page(session, page) at its start.
FetchPage_call(page) ==
    [page |-> page,
     attempt |-> 0,          \* the loop variable: the attempts completed
     calls |-> 0,            \* session.get calls made
     requests |-> 0,         \* HTTP requests sent
     last |-> NoOutcome,     \* what the last session.get call ended in
     passed |-> FALSE,       \* an attempt followed one that asked for no retry
     sleep |-> 0,            \* whole seconds of the last time.sleep
     state |-> "running",    \* "running", "returned" or "raised"
     result |-> "pending"]   \* "None" or "resp" once returned

\* The outcome asks for another attempt: a status >= 500, a 429, an exception.
AsksRetry(o) ==
    IF o.kind = "response" THEN o.status >= 500 \/ o.status = 429 ELSE TRUE

\* Whole seconds slept after attempt number `attempt` ended in o.
BackoffSleep(o, attempt) ==
    IF o.kind = "response" /\ o.status < 500
    THEN base_delay * (2 ^ attempt) * 2
    ELSE base_delay * (2 ^ attempt)

\* A retry loop that makes one attempt too many: range(max_retries + 1).
LoopRuns_OneMore(c) == c.attempt < max_retries + 1

\* for attempt in range(max_retries)
LoopRuns(c) == c.attempt < max_retries

\* The call c after one iteration of the loop in which session.get made n HTTP
\* requests and ended in o.
FetchPage_iteration(c, n, o) ==
    LET d == [c EXCEPT !.calls = @ + 1,
                       !.requests = @ + n,
                       !.last = o,
                       !.passed = c.passed \/ (c.calls > 0 /\ ~AsksRetry(c.last))]
    IN  IF o.kind = "response"
        THEN IF o.status >= 500 \/ o.status = 429
             THEN [d EXCEPT !.attempt = @ + 1, !.sleep = BackoffSleep(o, c.attempt)]
             ELSE IF 400 <= o.status /\ o.status < 500
             THEN [d EXCEPT !.state = "returned", !.result = "None"]
             ELSE \* resp.raise_for_status() raises for 400 <= status < 600
                  IF 400 <= o.status /\ o.status < 600
                  THEN IF Caught("Exception")
                       THEN [d EXCEPT !.attempt = @ + 1,
                                      !.sleep = BackoffSleep(Raised("Exception"), c.attempt)]
                       ELSE [d EXCEPT !.state = "raised"]
                  ELSE [d EXCEPT !.state = "returned", !.result = "resp"]
        ELSE IF Caught(o.kind)
             THEN [d EXCEPT !.attempt = @ + 1, !.sleep = BackoffSleep(o, c.attempt)]
             ELSE [d EXCEPT !.state = "raised"]

\* One iteration of the retry loop.
FetchPage_attempt ==
    /\ fp.state = "running"
    /\ LoopRuns(fp)
    /\ \E g \in SessionGet : fp' = FetchPage_iteration(fp, g[1], g[2])
    /\ OnlyFP

\* The loop is over: logging.error('Page %d failed after %d retries'); return None
FetchPage_give_up ==
    /\ fp.state = "running"
    /\ ~LoopRuns(fp)
    /\ fp' = [fp EXCEPT !.state = "returned", !.result = "None"]
    /\ OnlyFP

\* The caller calls fetch_page again, for any page.
FetchPage_again ==
    /\ fp.state = "returned"
    /\ \E page \in 1..MaxPage : fp' = FetchPage_call(page)
    /\ OnlyFP

---------------------------------------------------------------------------
(***************************************************************************)
(* fetch_agents: main, the pool's worker_loop threads and db_writer        *)
(***************************************************************************)

\* The threads of the pool: workers = min(args.workers, 20).
Workers == {"w1", "w2"}

\* if inserted % 100 == 0: conn.commit()
CommitEvery == 100

\* q = queue.Queue(maxsize=10000): q.put blocks while the queue holds that many.
maxsize == 10000

\* --delay, in whole seconds, when the clock runs.
Delays == {1, 2}

\* time.time()
TimeNow == StartTime + now

\* Page numbers after MaxPage are followed as one: Beyond stands for each.
Beyond == MaxPage + 1

\* What fetch_page returns: None, or a response with a status below 400.
FetchPageResults == {"None", "resp"}

\* The body of a response: not JSON, a list of n agents, an object holding such
\* a list under 'data', 'items' or 'results', another object, another value.
Bodies ==
    {[kind |-> k, n |-> 0] : k \in {"invalid", "dict_other", "other"}}
    \cup {[kind |-> k, n |-> n] : k \in {"list", "dict_list"}, n \in 0..MaxAgents}

\* What the API can answer when a page is fetched, as <<fetch_page's result, the
\* body>>: anything, but that the pages from env.empty_from on answer with an
\* empty list and that no page after MaxPage carries an agent.
Answers(page) ==
    {a \in FetchPageResults \X Bodies :
        /\ page >= env.empty_from =>
             a[1] = "resp" /\ a[2].kind \in {"list", "dict_list"} /\ a[2].n = 0
        /\ page > MaxPage => a[2].n = 0}

\* An item of the queue: agent number i of a page, flattened; None ends the queue.
Item(page, i) == [page |-> page, i |-> i]
Sentinel == Item(0, 0)

\* A worker that skips an empty page as it skips a failed one.
PageFailed_EmptyToo(r, b) == r = "None" \/ b.kind = "invalid" \/ b.n = 0

\* A worker that takes a page that could not be fetched for an empty page.
PageFailed_JsonOnly(r, b) == r = "resp" /\ b.kind = "invalid"

\* The fetch of a page gave up, or its body is not valid JSON.
PageFailed(r, b) == r = "None" \/ b.kind = "invalid"

\* worker_loop's data: the list, the list inside the object, else [].
WorkerData(b) == IF b.kind \in {"list", "dict_list"} THEN b.n ELSE 0

\* main's data of page 1 is a list.
MainDataIsList(b) == b.kind \in {"list", "dict_list"}

Fetched(page) ==
    IF page <= MaxPage THEN [hist EXCEPT !.fetched[page] = @ + 1] ELSE hist

\* The page numbers that get_next_page has handed out.
Handed == {hist.handed[k] : k \in 1..Len(hist.handed)}

\* A rate limit that never sleeps.
SleepFor_Never(last_request_time, current_time, min_delay) == 0

\* The seconds worker_loop sleeps before a request: min_delay - time_since_last
\* if time_since_last < min_delay, none otherwise.
SleepFor(last_request_time, current_time, min_delay) ==
    IF current_time - last_request_time < min_delay
    THEN min_delay - (current_time - last_request_time)
    ELSE 0

\* A page counter that is not incremented.
GetNextPage_NoIncrement(stopped, counter) ==
    IF stopped THEN <<None, counter>> ELSE <<counter, counter>>

\* get_next_page(), under counter_lock: <<the page returned, counter['next_page']
\* afterwards>>.
GetNextPage(stopped, counter) ==
    IF stopped
    THEN <<None, counter>>
    ELSE <<counter, IF counter > MaxPage THEN Beyond ELSE counter + 1>>

\* main up to writer_thread.start(): page 1 is fetched and parsed, the queue and
\* the event are made, db_writer starts and opens the database (the thread ends
\* at once if sqlite3.connect or create_table raises).
Main_fetch_first ==
    /\ main.pc = "start"
    /\ \E a \in Answers(1) :
         LET r == a[1]
             b == a[2]
         IN  IF r = "None" \/ b.kind = "invalid" \/ ~MainDataIsList(b)
             THEN /\ main' = [main EXCEPT !.pc = "returned"]
                  /\ UNCHANGED writer
             ELSE /\ main' = [main EXCEPT !.pc = "push", !.n = b.n]
                  /\ writer' = [writer EXCEPT
                                  !.pc = IF env.db_ok THEN "get" ELSE "dead"]
    /\ hist' = Fetched(1)
    /\ UNCHANGED <<env, wk, q, stop_event, next_page>>
    /\ OnlyFA

\* for agent in data: q.put(flatten_agent(agent))   (page 1)
Main_push ==
    /\ main.pc = "push"
    /\ main.i < main.n
    /\ \E ok \in BOOLEAN :
         IF ok
         THEN /\ Len(q) < maxsize
              /\ q' = Append(q, Item(1, main.i + 1))
              /\ main' = [main EXCEPT !.i = @ + 1]
              /\ hist' = [hist EXCEPT !.queued = @ \cup {Item(1, main.i + 1)}]
         ELSE \* flatten_agent raises on an agent that is no object
              /\ main' = [main EXCEPT !.pc = "raised"]
              /\ UNCHANGED <<q, hist>>
    /\ UNCHANGED <<env, wk, stop_event, next_page, writer>>
    /\ OnlyFA

\* After page 1 is queued: a dry run signals the writer; otherwise the page
\* counter is made and the workers are submitted to the pool.
Main_start_pool ==
    /\ main.pc = "push"
    /\ main.i = main.n
    /\ IF main.dry_run
       THEN /\ Len(q) < maxsize
            /\ q' = Append(q, Sentinel)
            /\ main' = [main EXCEPT !.pc = "dry_wait"]
            /\ UNCHANGED <<wk, next_page>>
       ELSE /\ next_page' = 2
            /\ wk' = [w \in Workers |-> [wk[w] EXCEPT !.pc = "loop"]]
            /\ main' = [main EXCEPT !.pc = "join"]
            /\ UNCHANGED q
    /\ UNCHANGED <<env, stop_event, writer, hist>>
    /\ OnlyFA

\* fut.result() for every worker, the pool is shut down, q.put(None)
Main_join ==
    /\ main.pc = "join"
    /\ \A w \in Workers : wk[w].pc \in {"done", "raised"}
    /\ Len(q) < maxsize
    /\ q' = Append(q, Sentinel)
    /\ main' = [main EXCEPT !.pc = "wait"]
    /\ UNCHANGED <<env, wk, stop_event, next_page, writer, hist>>
    /\ OnlyFA

\* stop_event.wait() returns; main logs 'All done' ('Dry run complete' in a dry
\* run) and returns
Main_wait ==
    /\ main.pc \in {"wait", "dry_wait"}
    /\ stop_event
    /\ main' = [main EXCEPT !.pc = IF main.pc = "wait" THEN "done" ELSE "dry_done"]
    /\ UNCHANGED <<env, wk, q, stop_event, next_page, writer, hist>>
    /\ OnlyFA

\* The interpreter exits when main is over: the writer, a daemon thread, stops
\* where it is.
Process_exit ==
    /\ main.pc \in {"returned", "done", "dry_done", "raised"}
    /\ writer.pc \in {"get", "commit", "close"}
    /\ writer' = [writer EXCEPT !.pc = "killed"]
    /\ UNCHANGED <<env, main, wk, q, stop_event, next_page, hist>>
    /\ OnlyFA

\* while not stop_event.is_set():
Worker_loop ==
    \E w \in Workers :
        /\ wk[w].pc = "loop"
        /\ wk' = [wk EXCEPT ![w].pc = IF stop_event THEN "done" ELSE "next",
                            ![w].op = "loop"]
        /\ UNCHANGED <<env, main, q, stop_event, next_page, writer, hist>>
        /\ OnlyFA

\* page = get_next_page(); if page is None: break; current_time = time.time()
\* and the length of the sleep that the rate limit asks for
Worker_get_next_page ==
    \E w \in Workers :
        /\ wk[w].pc = "next"
        /\ LET got == GetNextPage(stop_event, next_page)
               page == got[1]
           IN  /\ next_page' = got[2]
               /\ IF page = None
                  THEN /\ wk' = [wk EXCEPT ![w].pc = "done", ![w].op = "no_page"]
                       /\ UNCHANGED hist
                  ELSE /\ wk' = [wk EXCEPT
                            ![w].pc = "fetch", ![w].page = page,
                            ![w].n = 0, ![w].i = 0, ![w].op = "page",
                            ![w].wake = TimeNow + SleepFor(wk[w].last_request_time,
                                                           TimeNow, main.delay)]
                       /\ hist' = [hist EXCEPT
                            !.handed = IF page <= MaxPage \/ page \notin Handed
                                       THEN Append(@, page) ELSE @]
        /\ UNCHANGED <<env, main, q, stop_event, writer>>
        /\ OnlyFA

\* The sleep is over: last_request_time = time.time(), resp = fetch_page(session,
\* page), and what worker_loop makes of the response up to the first q.put.
Worker_fetch ==
    \E w \in Workers :
        /\ wk[w].pc = "fetch"
        /\ TimeNow >= wk[w].wake
        /\ \E a \in Answers(wk[w].page) :
             LET r == a[1]
                 b == a[2]
                 page == wk[w].page
                 bad == r = "None" \/ b.kind = "invalid"
                 timed == [wk EXCEPT
                     ![w].last_request_time = TimeNow,
                     ![w].since = IF wk[w].last_request_time = 0 THEN None
                                  ELSE TimeNow - wk[w].last_request_time]
                 h == [Fetched(page) EXCEPT
                         !.failed = IF bad /\ page <= MaxPage
                                    THEN @ \cup {page} ELSE @,
                         !.pool_last = TimeNow,
                         !.pool_gap = IF hist.pool_last = 0 THEN None
                                      ELSE TimeNow - hist.pool_last]
             IN  IF PageFailed(r, b)
                 THEN \* continue
                      /\ wk' = [timed EXCEPT ![w].pc = "loop",
                                  ![w].op = IF bad THEN "bad_page" ELSE "page_done"]
                      /\ hist' = h
                      /\ UNCHANGED stop_event
                 ELSE IF WorkerData(b) = 0
                 THEN \* stop_event.set(); break
                      /\ wk' = [timed EXCEPT ![w].pc = "done",
                                  ![w].op = IF bad THEN "bad_page" ELSE "empty_page"]
                      /\ stop_event' = TRUE
                      /\ hist' = [h EXCEPT !.stop_by = @ \cup {page}]
                 ELSE /\ wk' = [timed EXCEPT ![w].pc = "put", ![w].n = WorkerData(b),
                                  ![w].op = IF bad THEN "bad_page" ELSE "data"]
                      /\ hist' = h
                      /\ UNCHANGED stop_event
        /\ UNCHANGED <<env, main, q, next_page, writer>>
        /\ OnlyFA

\* for agent in data: q.put(flatten_agent(agent))
Worker_put ==
    \E w \in Workers :
        /\ wk[w].pc = "put"
        /\ \E ok \in BOOLEAN :
             IF ok
             THEN /\ Len(q) < maxsize
                  /\ q' = Append(q, Item(wk[w].page, wk[w].i + 1))
                  /\ wk' = [wk EXCEPT ![w].i = @ + 1,
                                      ![w].pc = IF wk[w].i + 1 = wk[w].n
                                                   THEN "loop" ELSE "put",
                                      ![w].op = "put"]
                  /\ hist' = [hist EXCEPT
                                !.queued = @ \cup {Item(wk[w].page, wk[w].i + 1)}]
             ELSE \* flatten_agent raises on an agent that is no object
                  /\ wk' = [wk EXCEPT ![w].pc = "raised", ![w].op = "raised"]
                  /\ UNCHANGED <<q, hist>>
        /\ UNCHANGED <<env, main, stop_event, next_page, writer>>
        /\ OnlyFA

\* A loop that does not end at None.
IsNone_Never(item) == FALSE

\* if item is None: break
IsNone(item) == item = Sentinel

\* item = q.get(); the insert of an item, or the end of the loop at None
Writer_get ==
    /\ writer.pc = "get"
    /\ q # << >>
    /\ q' = Tail(q)
    /\ IF IsNone(Head(q))
       THEN writer' = [writer EXCEPT !.pc = "commit"]
       ELSE \E ok \in BOOLEAN :
              IF ok
              THEN LET n == writer.inserted + 1
                       rows == writer.pending \cup {Head(q)}
                   IN  writer' = [writer EXCEPT
                          !.inserted = n,
                          !.taken = Append(@, Head(q)),
                          !.pending = IF n % CommitEvery = 0 THEN {} ELSE rows,
                          !.rows = IF n % CommitEvery = 0 THEN @ \cup rows ELSE @]
              ELSE \* cur.execute raises: logged, the loop goes on
                   writer' = [writer EXCEPT !.taken = Append(@, Head(q))]
    /\ UNCHANGED <<env, main, wk, stop_event, next_page, hist>>
    /\ OnlyFA

\* conn.commit() after the loop
Writer_commit ==
    /\ writer.pc = "commit"
    /\ writer' = [writer EXCEPT !.pc = "close",
                                !.rows = @ \cup writer.pending,
                                !.pending = {}]
    /\ UNCHANGED <<env, main, wk, q, stop_event, next_page, hist>>
    /\ OnlyFA

\* finally: conn.close(); stop_event.set()
Writer_finish ==
    /\ writer.pc = "close"
    /\ writer' = [writer EXCEPT !.pc = "finished"]
    /\ stop_event' = TRUE
    /\ hist' = [hist EXCEPT !.stop_by = @ \cup {0}]
    /\ UNCHANGED <<env, main, wk, q, next_page>>
    /\ OnlyFA

\* Time passes while the threads run.
TickFA ==
    /\ Tick
    /\ UNCHANGED fa_vars
    /\ UNCHANGED <<rl_vars, cb_vars, fp, ow_vars, ut, db_vars, cv_vars, sc_vars>>

\* The program at the start of main, given --dry-run or not and --delay, where
\* the pages from empty_from on answer with an empty list.
FreshFA(dry_run, delay, empty_from, db_ok) ==
    /\ env = [empty_from |-> empty_from, db_ok |-> db_ok]
    /\ main = [pc |-> "start", dry_run |-> dry_run, delay |-> delay,
               n |-> 0, i |-> 0]
    /\ wk = [w \in Workers |-> [pc |-> "idle", page |-> 0, n |-> 0, i |-> 0,
                                op |-> "none", last_request_time |-> 0,
                                wake |-> 0, since |-> None]]
    /\ q = << >>
    /\ stop_event = FALSE
    /\ next_page = 2
    /\ writer = [pc |-> "none", inserted |-> 0, taken |-> << >>,
                 pending |-> {}, rows |-> {}]
    /\ hist = [fetched |-> [page \in 1..MaxPage |-> 0], failed |-> {},
               queued |-> {}, stop_by |-> {}, handed |-> << >>,
               pool_last |-> 0, pool_gap |-> None]

---------------------------------------------------------------------------
(***************************************************************************)
(* owner_fetcher.fetch_owner_for_rera: the exchange with the Telegram bot  *)
(***************************************************************************)

\* A Python value: its type and, in v, what it holds: the characters of a str,
\* the items of a list, the <<key, value>> pairs of a dict in insertion order.
Py(t, v) == [t |-> t, v |-> v]
PyNone == Py("NoneType", << >>)

\* The rera arguments that the model follows: None, an int, and the strings of
\* up to MaxRera characters, each a digit, a dash, a letter or a space.
ReraArgs ==
    {PyNone, Py("int", <<"1">>)}
    \cup {Py("str", s) : s \in UNION {[1..n -> {"1", "-", "A", " "}] :
                                        n \in 0..MaxRera}}

\* rera.strip(), on the characters of the string
RECURSIVE StripSpaces(_)
StripSpaces(chars) ==
    IF chars # << >> /\ Head(chars) = " " THEN StripSpaces(Tail(chars))
    ELSE IF chars # << >> /\ chars[Len(chars)] = " "
    THEN StripSpaces(SubSeq(chars, 1, Len(chars) - 1))
    ELSE chars

\* validate_rera(rera): False if not rera or not isinstance(rera, str), else
\* bool(re.match(r'^[\d\-]+$', rera.strip()))
validate_rera(rera) ==
    IF rera.t # "str" \/ rera.v = << >> THEN FALSE
    ELSE LET stripped == StripSpaces(rera.v)
         IN  /\ stripped # << >>
             /\ \A k \in 1..Len(stripped) : stripped[k] \in {"1", "-"}

\* A call that does not validate its rera.
EarlyReturn_NoValidation(installed, rera) ==
    IF ~installed THEN "Telethon not installed" ELSE "none"

\* The error that fetch_owner_for_rera returns before it does anything: if
\* TelegramClient is None, else if not validate_rera(rera); "none" if it goes on.
EarlyReturn(installed, rera) ==
    IF ~installed THEN "Telethon not installed"
    ELSE IF ~validate_rera(rera) THEN "Invalid RERA format"
    ELSE "none"

\* rate_limiter = RateLimiter(min_delay=2.0, max_delay=30.0, backoff_factor=1.5,
\* jitter=0.5); the model's jitter is in whole seconds.
rate_limiter == RateLimiter_init(Float(2, 1), Float(30, 1), Float(3, 2), 1)

\* max_retries = 3, the polls for the initial reply
poll_max_retries == 3

\* A message of the chat: its text is None (a message without text), blank
\* (nothing is left by strip()) or has content; it carries buttons or not.
Messages == [text : {"none", "blank", "content"}, buttons : BOOLEAN]

\* What client.get_messages(tg_to, min_id=..., limit=10) can return: a list of
\* up to MaxMessages messages.
Responses == UNION {[1..n -> Messages] : n \in 0..MaxMessages}

\* The first message of the list whose text is not blank, 0 if there is none.
FirstNotBlank(response) ==
    LET S == {k \in 1..Len(response) : response[k].text # "blank"}
    IN  IF S = {} THEN 0 ELSE CHOOSE k \in S : \A j \in S : k <= j

\* any(msg.text.strip() for msg in response) raises: strip() of None.
ScanRaises(response) ==
    /\ FirstNotBlank(response) # 0
    /\ response[FirstNotBlank(response)].text = "none"

\* has_content = any(msg.text.strip() for msg in response)
HasContent(response) ==
    /\ FirstNotBlank(response) # 0
    /\ response[FirstNotBlank(response)].text = "content"

\* has_buttons = any(hasattr(msg, 'buttons') and msg.buttons for msg in response)
HasButtons(response) == \E k \in 1..Len(response) : response[k].buttons

\* What a poll returned: a message whose text has content, a message that
\* carries buttons.
Seen(response) ==
    [content |-> \E k \in 1..Len(response) : response[k].text = "content",
     buttons |-> \E k \in 1..Len(response) : response[k].buttons]

\* if has_content or has_buttons: break
Meaningful(response) == HasContent(response) \/ HasButtons(response)

\* A polling loop that runs once more: range(max_retries + 1).
PollLoopRuns_OneMore(attempt) == attempt < poll_max_retries + 1

\* for attempt in range(max_retries)
PollLoopRuns(attempt) == attempt < poll_max_retries

\* if response and len(response) > 0 and hasattr(response[0], 'buttons') and
\* response[0].buttons
ClickDue(response) == Len(response) > 0 /\ response[1].buttons

\* The call fetch_owner_for_rera(rera, ...) before it starts.
FetchOwner_idle ==
    [pc |-> "idle", rera |-> PyNone, telethon |-> TRUE, attempt |-> 0,
     response |-> << >>, log |-> << >>, met |-> << >>, limiter_calls |-> << >>,
     status |-> "none", error |-> "none"]

\* An except clause that does not tell the limiter.
FetchOwner_except_Silent(call) ==
    /\ fo' = [call EXCEPT !.pc = "returned", !.status = "error",
                          !.error = "exception"]
    /\ UNCHANGED <<rl_vars, now>>

\* except Exception as e: rate_limiter.record_failure(); return {'status':
\* 'error', 'error': str(e)}, for the call as the exception found it
FetchOwner_except(call) ==
    /\ limiter.failure_count < MaxFailures
    /\ limiter' = [limiter EXCEPT !.failure_count = @ + 1,
                                  !.current_delay = FailureDelay(limiter)]
    /\ Called("record_failure")
    /\ fo' = [call EXCEPT !.pc = "returned", !.status = "error",
                          !.error = "exception",
                          !.limiter_calls = Append(@, "record_failure")]
    /\ UNCHANGED now

\* The call up to the try statement: the Telethon check, validate_rera(rera),
\* the session file, rate_limiter.wait().
FetchOwner_call ==
    /\ fo.pc = "idle"
    /\ \E installed \in BOOLEAN, rera \in ReraArgs :
         LET called == [fo EXCEPT !.rera = rera, !.telethon = installed]
         IN  IF EarlyReturn(installed, rera) # "none"
             THEN /\ fo' = [called EXCEPT !.pc = "returned", !.status = "error",
                                          !.error = EarlyReturn(installed, rera)]
                  /\ UNCHANGED <<rl_vars, now>>
             ELSE /\ \E t \in WaitReturnTimes(limiter) :
                       /\ now' = t
                       /\ limiter' = [limiter EXCEPT !.last_request_time = t]
                  /\ Called("wait")
                  /\ fo' = [called EXCEPT !.pc = "start",
                                          !.limiter_calls = Append(@, "wait")]
    /\ OnlyOW

\* async with TelegramClient(...) as client: await client.start()
FetchOwner_start ==
    /\ fo.pc = "start"
    /\ \/ fo' = [fo EXCEPT !.pc = "send"] /\ UNCHANGED <<rl_vars, now>>
       \/ FetchOwner_except(fo)
    /\ OnlyOW

\* sent = await client.send_message(tg_to, message)
FetchOwner_send ==
    /\ fo.pc = "send"
    /\ \/ /\ fo' = [fo EXCEPT !.pc = "poll", !.attempt = 0,
                              !.log = Append(@, "send")]
          /\ UNCHANGED <<rl_vars, now>>
       \/ FetchOwner_except(fo)
    /\ OnlyOW

\* One iteration of the polling loop: response = await client.get_messages(tg_to,
\* min_id=sent.id, limit=10), the test of the response, the sleep before the next
\* iteration.
FetchOwner_poll ==
    /\ fo.pc = "poll"
    /\ PollLoopRuns(fo.attempt)
    /\ \/ \E response \in Responses :
            LET polled == [fo EXCEPT !.response = response,
                                     !.log = Append(@, "poll"),
                                     !.met = Append(@, Seen(response))]
            IN  IF ScanRaises(response)
                THEN FetchOwner_except(polled)
                ELSE /\ fo' = [polled EXCEPT
                                 !.attempt = @ + 1,
                                 !.pc = IF Meaningful(response)
                                           \/ ~PollLoopRuns(fo.attempt + 1)
                                        THEN "polled" ELSE "poll"]
                     /\ UNCHANGED <<rl_vars, now>>
       \/ FetchOwner_except(fo)
    /\ OnlyOW

\* After the loop the responses are kept; if the first message carries buttons:
\* await asyncio.sleep(1); await response[0].click(0)
FetchOwner_click ==
    /\ fo.pc = "polled"
    /\ IF ClickDue(fo.response)
       THEN \/ /\ fo' = [fo EXCEPT !.pc = "secondary", !.log = Append(@, "click")]
               /\ UNCHANGED <<rl_vars, now>>
            \/ FetchOwner_except(fo)
       ELSE /\ fo' = [fo EXCEPT !.pc = "finish"]
            /\ UNCHANGED <<rl_vars, now>>
    /\ OnlyOW

\* secondary = await client.get_messages(tg_to, min_id=response[0].id, limit=10)
FetchOwner_secondary ==
    /\ fo.pc = "secondary"
    /\ \/ /\ fo' = [fo EXCEPT !.pc = "updated", !.log = Append(@, "secondary")]
          /\ UNCHANGED <<rl_vars, now>>
       \/ FetchOwner_except(fo)
    /\ OnlyOW

\* await asyncio.sleep(2); updated_messages = await client.get_messages(tg_to,
\* ids=response[0].id)
FetchOwner_updated ==
    /\ fo.pc = "updated"
    /\ \/ /\ fo' = [fo EXCEPT !.pc = "latest", !.log = Append(@, "updated")]
          /\ UNCHANGED <<rl_vars, now>>
       \/ FetchOwner_except(fo)
    /\ OnlyOW

\* latest_messages = await client.get_messages(tg_to, limit=1)
FetchOwner_latest ==
    /\ fo.pc = "latest"
    /\ \/ /\ fo' = [fo EXCEPT !.pc = "finish", !.log = Append(@, "latest")]
          /\ UNCHANGED <<rl_vars, now>>
       \/ FetchOwner_except(fo)
    /\ OnlyOW

\* The owner details are looked for and extracted, the responses are logged
\* (a text that is None raises there), rate_limiter.record_success()
FetchOwner_finish ==
    /\ fo.pc = "finish"
    /\ \/ /\ limiter' = [limiter EXCEPT !.failure_count = 0,
                                        !.current_delay = SuccessDelay(limiter)]
          /\ Called("record_success")
          /\ fo' = [fo EXCEPT !.pc = "exit", !.status = "success",
                              !.limiter_calls = Append(@, "record_success")]
          /\ UNCHANGED now
       \/ FetchOwner_except(fo)
    /\ OnlyOW

\* return {..., 'status': 'success'} leaves the async with block: the client
\* disconnects, and an exception of the disconnection reaches the except clause
FetchOwner_exit ==
    /\ fo.pc = "exit"
    /\ \/ /\ fo' = [fo EXCEPT !.pc = "returned"]
          /\ UNCHANGED <<rl_vars, now>>
       \/ FetchOwner_except(fo)
    /\ OnlyOW

\* The next call of fetch_owner_for_rera.
FetchOwner_again ==
    /\ fo.pc = "returned"
    /\ fo' = FetchOwner_idle
    /\ UNCHANGED <<rl_vars, now>>
    /\ OnlyOW

\* Time passes during the exchange.
TickOW == Tick /\ UNCHANGED <<rl_vars, fo>> /\ OnlyOW

---------------------------------------------------------------------------
(***************************************************************************)
(* utils.serialize_for_db and utils.deserialize_from_db                    *)
(***************************************************************************)

\* The characters that JSON escapes in a string: the quotation mark and the
\* backslash.
Escaped == {"\"", "\\"}

\* The scalar JSON values that the model follows: None, True, 1 and three
\* strings, one with a letter outside ASCII and a quotation mark in it.
Scalars ==
    {PyNone, Py("bool", <<"True">>), Py("int", <<"1">>)}
    \cup {Py("str", s) : s \in {<< >>, <<"é", "\"">>, <<"\\">>}}

\* The keys of the modelled dicts.
Keys == {<<"k">>, <<"é">>}

\* The lists of up to n values of S, and the dicts of up to n keys with values
\* of S (a dict holds a key once).
ListsOf(S, n) == {Py("list", items) : items \in UNION {[1..k -> S] : k \in 0..n}}
DictsOf(S, n) ==
    {Py("dict", pairs) : pairs \in
        {p \in UNION {[1..k -> Keys \X S] : k \in 0..n} :
            \A i, j \in 1..Len(p) : p[i][1] = p[j][1] => i = j}}

\* The lists and dicts of JSON values that are serialised; the values inside
\* them are the scalars, and the lists and dicts of at most one scalar.
JsonValues ==
    LET Nested == Scalars \cup ListsOf(Scalars, 1) \cup DictsOf(Scalars, 1)
    IN  ListsOf(Nested, MaxLen) \cup DictsOf(Nested, MaxLen)

\* The text of a JSON document, as a sequence of symbols: a punctuation mark, a
\* space, a letter, or one of the literals null, true, 1 and NaN.
Symbols ==
    {"[", "]", "{", "}", ",", ":", " ", "null", "true", "1", "NaN", "k", "é"}
    \cup Escaped

\* The strings of up to MaxText symbols.
Texts == UNION {[1..n -> Symbols] : n \in 0..MaxText}

\* s1 + sep + s2 + ... of a sequence of sequences
RECURSIVE Join(_, _)
Join(parts, sep) ==
    IF parts = << >> THEN << >>
    ELSE IF Len(parts) = 1 THEN parts[1]
    ELSE parts[1] \o sep \o Join(Tail(parts), sep)

\* An encoder that does not escape: the characters as they are.
EncodeString_Raw(chars) == <<"\"">> \o chars \o <<"\"">>

\* json's encoding of a str with ensure_ascii=False: the quotation mark and the
\* backslash are escaped with a backslash, any other character is kept.
EncodeString(chars) ==
    <<"\"">>
    \o Join([i \in 1..Len(chars) |->
                IF chars[i] \in Escaped THEN <<"\\", chars[i]>> ELSE <<chars[i]>>],
            << >>)
    \o <<"\"">>

\* json.dumps(value, ensure_ascii=False), with the default separators ', ' and
\* ': '
RECURSIVE Dumps(_)
Dumps(value) ==
    CASE value.t = "NoneType" -> <<"null">>
      [] value.t = "bool" -> <<"true">>
      [] value.t = "int" -> <<"1">>
      [] value.t = "float" -> <<"NaN">>
      [] value.t = "str" -> EncodeString(value.v)
      [] value.t = "list" ->
            <<"[">>
            \o Join([i \in 1..Len(value.v) |-> Dumps(value.v[i])], <<",", " ">>)
            \o <<"]">>
      [] value.t = "dict" ->
            <<"{">>
            \o Join([i \in 1..Len(value.v) |->
                        EncodeString(value.v[i][1]) \o <<":", " ">>
                        \o Dumps(value.v[i][2])],
                    <<",", " ">>)
            \o <<"}">>

\* What a step of the decoder gives: the value it read and the index after it,
\* or a failure (json.JSONDecodeError).
Read(value, next) == [ok |-> TRUE, val |-> value, next |-> next]
Malformed == [ok |-> FALSE, val |-> PyNone, next |-> 0]

\* The index of the first symbol from i on that is not whitespace.
RECURSIVE SkipSpace(_, _)
SkipSpace(s, i) ==
    IF i <= Len(s) /\ s[i] = " " THEN SkipSpace(s, i + 1) ELSE i

\* The decoder inside a string, after the opening quotation mark.
RECURSIVE ScanString(_, _, _)
ScanString(s, i, chars) ==
    IF i > Len(s) THEN Malformed
    ELSE IF s[i] = "\"" THEN Read(Py("str", chars), i + 1)
    ELSE IF s[i] = "\\"
    THEN IF i + 1 <= Len(s) /\ s[i + 1] \in Escaped
         THEN ScanString(s, i + 2, Append(chars, s[i + 1]))
         ELSE Malformed
    ELSE ScanString(s, i + 1, Append(chars, s[i]))

\* d[key] = value on the pairs of a dict: a key that is there keeps its place.
SetItem(pairs, key, value) ==
    IF \E i \in 1..Len(pairs) : pairs[i][1] = key
    THEN [i \in 1..Len(pairs) |->
            IF pairs[i][1] = key THEN <<key, value>> ELSE pairs[i]]
    ELSE Append(pairs, <<key, value>>)

\* The decoder of json.loads: a value from index i on; the items of an array
\* after '['; the members of an object after '{'.  Besides the values of JSON
\* it reads the constant NaN (and Infinity, -Infinity) as a float.
RECURSIVE ScanOnce(_, _), ScanItems(_, _, _), ScanMembers(_, _, _)
ScanOnce(s, i) ==
    IF i > Len(s) THEN Malformed
    ELSE CASE s[i] = "null" -> Read(PyNone, i + 1)
           [] s[i] = "true" -> Read(Py("bool", <<"True">>), i + 1)
           [] s[i] = "1" -> Read(Py("int", <<"1">>), i + 1)
           [] s[i] = "NaN" -> Read(Py("float", <<"nan">>), i + 1)
           [] s[i] = "\"" -> ScanString(s, i + 1, << >>)
           [] s[i] = "[" ->
                LET j == SkipSpace(s, i + 1)
                IN  IF j <= Len(s) /\ s[j] = "]"
                    THEN Read(Py("list", << >>), j + 1)
                    ELSE ScanItems(s, j, << >>)
           [] s[i] = "{" ->
                LET j == SkipSpace(s, i + 1)
                IN  IF j <= Len(s) /\ s[j] = "}"
                    THEN Read(Py("dict", << >>), j + 1)
                    ELSE ScanMembers(s, j, << >>)
           [] OTHER -> Malformed

ScanItems(s, i, items) ==
    LET item == ScanOnce(s, i)
        j == SkipSpace(s, item.next)
    IN  IF ~item.ok \/ j > Len(s) THEN Malformed
        ELSE IF s[j] = "]" THEN Read(Py("list", Append(items, item.val)), j + 1)
        ELSE IF s[j] = ","
        THEN ScanItems(s, SkipSpace(s, j + 1), Append(items, item.val))
        ELSE Malformed

ScanMembers(s, i, pairs) ==
    IF i > Len(s) \/ s[i] # "\"" THEN Malformed
    ELSE LET key == ScanString(s, i + 1, << >>)
             c == SkipSpace(s, key.next)
         IN  IF ~key.ok \/ c > Len(s) \/ s[c] # ":" THEN Malformed
             ELSE LET member == ScanOnce(s, SkipSpace(s, c + 1))
                      j == SkipSpace(s, member.next)
                      more == SetItem(pairs, key.val.v, member.val)
                  IN  IF ~member.ok \/ j > Len(s) THEN Malformed
                      ELSE IF s[j] = "}" THEN Read(Py("dict", more), j + 1)
                      ELSE IF s[j] = ","
                      THEN ScanMembers(s, SkipSpace(s, j + 1), more)
                      ELSE Malformed

\* json.loads(s) of a str: the value of the document, which may stand between
\* whitespace, or Malformed where it raises json.JSONDecodeError.
Loads(s) ==
    LET doc == ScanOnce(s, SkipSpace(s, 1))
    IN  IF doc.ok /\ SkipSpace(s, doc.next) > Len(s) THEN doc ELSE Malformed

\* len(value) == 0 of a list or dict
IsEmpty(value) == value.t \in {"list", "dict"} /\ Len(value.v) = 0

\* serialize_for_db(value); str(value) of a scalar str is the value
serialize_for_db(value) ==
    IF value = PyNone \/ IsEmpty(value) THEN PyNone
    ELSE IF value.t \in {"list", "dict"} THEN Py("str", Dumps(value))
    ELSE Py("str", value.v)

\* deserialize_from_db(json_str, default): the default if not json_str, and if
\* json.loads raises JSONDecodeError or (json_str is no str) TypeError
deserialize_from_db(json_str, default) ==
    IF json_str = PyNone \/ json_str = Py("str", << >>) THEN default
    ELSE IF json_str.t # "str" THEN default
    ELSE IF Loads(json_str.v).ok THEN Loads(json_str.v).val
    ELSE default

\* No function of utils is called.
NoCall == [fn |-> "none"]

\* A call of the two functions one after the other, as the owners database
\* uses them: the value, the default, what was stored and what was read back.
SerializeCall(value, default) ==
    [fn |-> "serialize_for_db", given |-> "value", value |-> value,
     default |-> default, json_str |-> PyNone, result |-> PyNone]

\* A call of deserialize_from_db on a string that the database holds.
DeserializeCall(json_str, default) ==
    [fn |-> "deserialize_from_db", given |-> "json_str", value |-> PyNone,
     default |-> default, json_str |-> json_str, result |-> PyNone]

\* The defaults of the callers: [] (get_owner_details) and None.
Defaults == {Py("list", << >>), PyNone}

\* stored = serialize_for_db(value)
Serialize_return ==
    /\ ut.fn = "serialize_for_db"
    /\ ut' = [ut EXCEPT !.fn = "deserialize_from_db",
                        !.json_str = serialize_for_db(ut.value)]
    /\ OnlyUT

\* result = deserialize_from_db(stored, default)
Deserialize_return ==
    /\ ut.fn = "deserialize_from_db"
    /\ ut' = [ut EXCEPT !.fn = "returned",
                        !.result = deserialize_from_db(ut.json_str, ut.default)]
    /\ OnlyUT

---------------------------------------------------------------------------
(***************************************************************************)
(* utils.has_owner_details and utils.extract_owner_details                 *)
(***************************************************************************)

\* The texts of the bot's responses that the model follows, each the sequence
\* of its lines, by kind: the empty string, a blank text, an owner block, the
\* fields without the marker, the marker alone, only a name, only a phone, and
\* the notice that there are no details.
OwnerText ==
    [empty |-> << >>,
     blank |-> <<"   ">>,
     block |-> <<"Owner details:", "Name: John Doe", "Phone: +1234567890">>,
     fields |-> <<"", "name: Jane Smith", "PHONE: +0987654321",
                  "Email: jane@example.com">>,
     marker |-> <<"OWNER DETAILS: see below", "  ">>,
     name |-> <<"Name: John Doe  ", "No phone here", "Email: john@example.com">>,
     phone |-> <<"Phone: +1234567890 ", "No name here">>,
     unavailable |-> <<"Owner details unavailable">>]

OwnerTexts == {OwnerText[kind] : kind \in DOMAIN OwnerText}

\* The lists of up to MaxTexts response texts.
ResponseTexts == UNION {[1..n -> OwnerTexts] : n \in 0..MaxTexts}

\* A line that strip() empties.
IsBlank(line) == line \in {"", "  ", "   "}

\* text.strip(), on the lines of the text: the blank lines at both ends go.
RECURSIVE Strip(_)
Strip(text) ==
    IF text # << >> /\ IsBlank(Head(text)) THEN Strip(Tail(text))
    ELSE IF text # << >> /\ IsBlank(text[Len(text)])
    THEN Strip(SubSeq(text, 1, Len(text) - 1))
    ELSE text

\* 'owner details:' in line.lower()
HasMarker(line) == line \in {"Owner details:", "OWNER DETAILS: see below"}

\* 'owner details unavailable' in line.lower()
SaysUnavailable(line) == line \in {"Owner details unavailable"}

\* re.search(r'(📝\s*)?name\s*:\s*\S+', line, flags=re.IGNORECASE)
NameField(line) ==
    line \in {"Name: John Doe", "Name: John Doe  ", "name: Jane Smith"}

\* re.search(r'(📞\s*)?phone\s*:\s*\S+', line, flags=re.IGNORECASE)
PhoneField(line) ==
    line \in {"Phone: +1234567890", "Phone: +1234567890 ", "PHONE: +0987654321"}

\* The body of the loop of has_owner_details for the stripped text t: return
\* True, return False, or go on with the next text.
Verdict(t) ==
    IF \E i \in 1..Len(t) : HasMarker(t[i]) THEN "True"
    ELSE IF (\E i \in 1..Len(t) : NameField(t[i]))
            /\ (\E i \in 1..Len(t) : PhoneField(t[i])) THEN "True"
    ELSE IF \E i \in 1..Len(t) : SaysUnavailable(t[i]) THEN "False"
    ELSE "next"

\* has_owner_details(responses_text)
RECURSIVE has_owner_details(_)
has_owner_details(responses_text) ==
    IF responses_text = << >> THEN FALSE
    ELSE LET text == Head(responses_text)
         IN  IF text = OwnerText.empty THEN has_owner_details(Tail(responses_text))
             ELSE IF Verdict(Strip(text)) = "next"
             THEN has_owner_details(Tail(responses_text))
             ELSE Verdict(Strip(text)) = "True"

\* combined_text = '\n'.join(responses_text), as the sequence of its lines (an
\* empty string is one empty line).
RECURSIVE Combined(_)
Combined(responses_text) ==
    IF responses_text = << >> THEN << >>
    ELSE (IF Head(responses_text) = << >> THEN <<"">> ELSE Head(responses_text))
         \o Combined(Tail(responses_text))

\* What the three patterns of extract_owner_details capture in a line, before
\* strip(): r'(?:📝\s*)?name\s*:\s*(.+?)(?=\n|$)',
\* r'(?:📞\s*)?phone\s*:\s*(\+?[0-9\s\-()]{6,})' and
\* r'[A-Za-z0-9._%+-]+@[A-Za-z0-9.-]+\.[A-Za-z]{2,}'; "" where there is no match.
NameCaptured(line) ==
    CASE line = "Name: John Doe" -> "John Doe"
      [] line = "Name: John Doe  " -> "John Doe  "
      [] line = "name: Jane Smith" -> "Jane Smith"
      [] OTHER -> ""

PhoneCaptured(line) ==
    CASE line = "Phone: +1234567890" -> "+1234567890"
      [] line = "Phone: +1234567890 " -> "+1234567890 "
      [] line = "PHONE: +0987654321" -> "+0987654321"
      [] OTHER -> ""

EmailCaptured(line) ==
    CASE line = "Email: jane@example.com" -> "jane@example.com"
      [] line = "Email: john@example.com" -> "john@example.com"
      [] OTHER -> ""

\* match.strip() of a captured value
StripValue(match) ==
    CASE match = "John Doe  " -> "John Doe"
      [] match = "+1234567890 " -> "+1234567890"
      [] OTHER -> match

\* An append without the test for a value that is in the list.
AppendNew_Always(values, value) ==
    IF value # "" THEN Append(values, value) ELSE values

\* if value and value not in values: values.append(value)
AppendNew(values, value) ==
    IF value # "" /\ \A i \in 1..Len(values) : values[i] # value
    THEN Append(values, value)
    ELSE values

\* The loop over the matches of one pattern in the lines from the k-th on.
RECURSIVE Collect(_, _, _, _)
Collect(lines, k, pattern, values) ==
    IF k > Len(lines) THEN values
    ELSE LET match == CASE pattern = "name" -> NameCaptured(lines[k])
                        [] pattern = "phone" -> PhoneCaptured(lines[k])
                        [] pattern = "email" -> EmailCaptured(lines[k])
         IN  Collect(lines, k + 1, pattern, AppendNew(values, StripValue(match)))

\* extract_owner_details(responses_text)
extract_owner_details(responses_text) ==
    LET combined_text == Combined(responses_text)
    IN  [owner_names |-> Collect(combined_text, 1, "name", << >>),
         owner_phones |-> Collect(combined_text, 1, "phone", << >>),
         owner_emails |-> Collect(combined_text, 1, "email", << >>)]

\* A call of has_owner_details or of extract_owner_details on a list of texts.
TextsCall(fn, responses_text) ==
    [fn |-> fn, responses_text |-> responses_text, found |-> FALSE,
     owner_names |-> << >>, owner_phones |-> << >>, owner_emails |-> << >>]

\* return of has_owner_details(responses_text)
HasOwnerDetails_return ==
    /\ ut.fn = "has_owner_details"
    /\ ut' = [ut EXCEPT !.fn = "returned has_owner_details",
                        !.found = has_owner_details(ut.responses_text)]
    /\ OnlyUT

\* return of extract_owner_details(responses_text)
ExtractOwnerDetails_return ==
    /\ ut.fn = "extract_owner_details"
    /\ LET details == extract_owner_details(ut.responses_text)
       IN  ut' = [ut EXCEPT !.fn = "returned extract_owner_details",
                            !.owner_names = details.owner_names,
                            !.owner_phones = details.owner_phones,
                            !.owner_emails = details.owner_emails]
    /\ OnlyUT

---------------------------------------------------------------------------
(***************************************************************************)
(* owner_fetcher.update_db_with_owner_details and the owners table         *)
(***************************************************************************)

\* The threads (Streamlit sessions) that call update_db_with_owner_details.
Callers == {1, 2}

\* The arguments of the modelled calls.
Listings == {"L1", "L2"}
Reras == {"1234", "5678"}
NoDetails ==
    [owner_names |-> Py("list", << >>), owner_phones |-> Py("list", << >>),
     owner_emails |-> Py("list", << >>)]
SomeDetails ==
    [owner_names |-> Py("list", <<Py("str", <<"John Doe">>)>>),
     owner_phones |-> Py("list", <<Py("str", <<"+1234567890">>)>>),
     owner_emails |-> Py("list", <<Py("str", <<"john@example.com">>)>>)]
OwnerDetails == {NoDetails, SomeDetails}

\* A caller outside update_db_with_owner_details.
Update_idle == [pc |-> "idle"]

\* The owners database before init_owner_database or after it, if its file is
\* there: the rows of the owners table and the last id that AUTOINCREMENT gave.
OwnersDb(file, table) == [file |-> file, table |-> table, rows |-> {}, seq |-> 0]

\* SELECT id FROM owners WHERE listing_id = ?
SelectIds(rows, listing_id) == {r.id : r \in {x \in rows : x.listing_id = listing_id}}

\* A table without the UNIQUE constraint on listing_id.
UniqueViolation_NoConstraint(rows, listing_id) == FALSE

\* listing_id TEXT NOT NULL UNIQUE: an INSERT of a listing_id that the table
\* holds raises sqlite3.IntegrityError
UniqueViolation(rows, listing_id) == \E r \in rows : r.listing_id = listing_id

\* UPDATE owners SET rera = ?, owner_names = ?, owner_phones = ?,
\* owner_emails = ?, fetched_at = ? WHERE listing_id = ?
UpdateRows(rows, a, fetched_at) ==
    {IF r.listing_id = a.listing_id
     THEN [r EXCEPT !.rera = a.rera,
                    !.owner_names = serialize_for_db(a.owner_names),
                    !.owner_phones = serialize_for_db(a.owner_phones),
                    !.owner_emails = serialize_for_db(a.owner_emails),
                    !.fetched_at = fetched_at]
     ELSE r : r \in rows}

\* INSERT INTO owners (listing_id, rera, owner_names, owner_phones,
\* owner_emails, fetched_at) VALUES (?, ?, ?, ?, ?, ?), with the id it gets
InsertRow(rows, id, a, fetched_at) ==
    rows \cup {[id |-> id, listing_id |-> a.listing_id, rera |-> a.rera,
                owner_names |-> serialize_for_db(a.owner_names),
                owner_phones |-> serialize_for_db(a.owner_phones),
                owner_emails |-> serialize_for_db(a.owner_emails),
                fetched_at |-> fetched_at]}

\* except Exception as e: logger.error(...); raise
Update_except(c) ==
    /\ upd' = [upd EXCEPT !.calls[c] = [pc |-> "returned", result |-> "raised"]]
    /\ UNCHANGED owners

\* The call up to the SELECT: get_owners_db_connection() raises if the file is
\* not there, the lists are serialised, the SELECT raises if there is no owners
\* table or on any other error of SQLite, existing = c.fetchone().
Update_select(c) ==
    /\ upd.calls[c].pc = "idle"
    /\ \E listing_id \in Listings, rera \in Reras, details \in OwnerDetails,
          sql_error \in BOOLEAN :
         IF ~owners.file \/ ~owners.table \/ sql_error
         THEN Update_except(c)
         ELSE /\ upd' = [upd EXCEPT !.calls[c] =
                           [pc |-> "write", listing_id |-> listing_id,
                            rera |-> rera, owner_names |-> details.owner_names,
                            owner_phones |-> details.owner_phones,
                            owner_emails |-> details.owner_emails,
                            existing |-> SelectIds(owners.rows, listing_id) # {}]]
              /\ UNCHANGED owners
    /\ OnlyDB

\* The rest of the call: the UPDATE if existing, else the INSERT; conn.commit();
\* conn.close(); return True.  An error of SQLite ends the call in the except
\* clause, and nothing is committed.
Update_write(c) ==
    /\ upd.calls[c].pc = "write"
    /\ LET a == upd.calls[c]
       IN  \E sql_error \in BOOLEAN :
             IF sql_error
                \/ (~a.existing /\ UniqueViolation(owners.rows, a.listing_id))
             THEN Update_except(c)
             ELSE /\ owners' =
                       IF a.existing
                       THEN [owners EXCEPT !.rows = UpdateRows(@, a, now)]
                       ELSE [owners EXCEPT
                               !.rows = InsertRow(@, owners.seq + 1, a, now),
                               !.seq = @ + 1]
                  /\ upd' = [upd EXCEPT
                               !.calls[c] = [pc |-> "returned", result |-> "True"],
                               !.committed[a.listing_id] =
                                   [rera |-> a.rera, owner_names |-> a.owner_names,
                                    owner_phones |-> a.owner_phones,
                                    owner_emails |-> a.owner_emails],
                               !.updated[a.listing_id] = @ \/ a.existing,
                               !.inserted[a.listing_id] =
                                   IF a.existing THEN @ ELSE owners.seq + 1]
    /\ OnlyDB

\* The caller has the result (search_ui.fetch_owner_for_single catches the
\* exception) and may call again.
Update_again(c) ==
    /\ upd.calls[c].pc = "returned"
    /\ upd' = [upd EXCEPT !.calls[c] = Update_idle]
    /\ UNCHANGED owners
    /\ OnlyDB

\* The arguments of the last call that returned True, before any has.
NothingCommitted ==
    [rera |-> "", owner_names |-> PyNone, owner_phones |-> PyNone,
     owner_emails |-> PyNone]

\* No call has been made.
FreshDB(file, table) ==
    /\ owners = OwnersDb(file, table)
    /\ upd = [calls |-> [c \in Callers |-> Update_idle],
              committed |-> [l \in Listings |-> NothingCommitted],
              updated |-> [l \in Listings |-> FALSE],
              inserted |-> [l \in Listings |-> 0]]


---------------------------------------------------------------------------
(***************************************************************************)
(* csv_rera_to_owner_details: get_owner_details, send_to_telegram and the  *)
(* list of used RERAs in data/used_reras.json                              *)
(***************************************************************************)

\* The listings read_listings_from_csv can return, as the RERAs of their rows:
\* a RERA is not empty, and nothing keeps two rows from having the same one.
CsvFiles ==
    UNION {[1..n -> Reras] : n \in 1..MaxRows}

\* rera in used_reras
InList(rera, list) == \E k \in 1..Len(list) : list[k] = rera

\* add_used_rera: load_used_reras, append the rera unless it is in the list,
\* save_used_reras; the file after it, given the file before it
add_used_rera(file, rera) ==
    IF InList(rera, file) THEN file ELSE Append(file, rera)

\* new_listings of get_owner_details: the listings whose RERA is not in
\* used_reras, and the first max_reras of them where max_reras is given
\* (0 stands for None)
NewListings(all_listings, used, max_reras) ==
    LET new == SelectSeq(all_listings, LAMBDA rera : ~InList(rera, used))
    IN  IF max_reras > 0 /\ max_reras < Len(new)
           THEN SubSeq(new, 1, max_reras)
           ELSE new

\* No run of get_owner_details is going on.
GetOwnerDetails_idle ==
    [pc |-> "idle", runs |-> 0, new_listings |-> << >>, k |-> 1,
     responses |-> << >>, sent |-> << >>, completed |-> {}, again |-> {}]

\* The listing the loop of send_to_telegram is at.
ThisRera == cr.new_listings[cr.k]

\* except Exception as e: the error is put into responses and the loop goes on
\* with the next listing
SendToTelegram_except(run) ==
    /\ cr' = [run EXCEPT !.pc = "loop", !.k = @ + 1,
                         !.responses = Append(@, "error")]
    /\ UNCHANGED used_reras

\* get_owner_details(csv_file, ...) up to the call of send_to_telegram: it
\* returns at once when no listing is new
GetOwnerDetails_run ==
    /\ cr.pc = "idle"
    /\ cr.runs < MaxRuns
    /\ \E all_listings \in CsvFiles, max_reras \in 0..MaxRows :
         LET new_listings == NewListings(all_listings, used_reras, max_reras)
         IN  cr' = [cr EXCEPT !.runs = @ + 1,
                              !.new_listings = new_listings,
                              !.k = 1,
                              !.responses = << >>,
                              !.pc = IF new_listings = << >> THEN "idle" ELSE "loop"]
    /\ UNCHANGED used_reras
    /\ OnlyCV

\* client.send_message(tg_to, rera), which sends the RERA to the bot or raises
SendToTelegram_send ==
    /\ cr.pc = "loop"
    /\ cr.k <= Len(cr.new_listings)
    /\ \/ /\ cr' = [cr EXCEPT !.pc = "sent",
                              !.sent = Append(@, ThisRera),
                              !.again = IF ThisRera \in cr.completed
                                           THEN @ \cup {ThisRera} ELSE @]
          /\ UNCHANGED used_reras
       \/ SendToTelegram_except(cr)
    /\ OnlyCV

\* The exchange after the message: the sleeps, get_messages, the click, until
\* resp_data is appended to responses; any of the calls may raise
SendToTelegram_exchange ==
    /\ cr.pc = "sent"
    /\ \/ /\ cr' = [cr EXCEPT !.pc = "exchanged",
                              !.completed = @ \cup {ThisRera},
                              !.responses = Append(@, "completed")]
          /\ UNCHANGED used_reras
       \/ SendToTelegram_except(cr)
    /\ OnlyCV

\* output/partial_responses.json is written, which may raise, and then
\* add_used_rera(str(rera)) is called
SendToTelegram_record ==
    /\ cr.pc = "exchanged"
    /\ \/ /\ used_reras' = add_used_rera(used_reras, ThisRera)
          /\ cr' = [cr EXCEPT !.pc = "loop", !.k = @ + 1]
       \/ SendToTelegram_except(cr)
    /\ OnlyCV

\* The loop ends, after the last listing or because stop_event is set, and
\* send_to_telegram returns the responses
SendToTelegram_return ==
    /\ cr.pc = "loop"
    /\ cr' = [cr EXCEPT !.pc = "idle"]
    /\ UNCHANGED used_reras
    /\ OnlyCV

\* Before the first run: data/used_reras.json is not there.
FreshCV ==
    /\ used_reras = << >>
    /\ cr = GetOwnerDetails_idle

---------------------------------------------------------------------------
(***************************************************************************)
(* fetch_all_listings/fetch.py: fetch_page, fetch_first_page and the       *)
(* "Start Scraping" handler                                                *)
(***************************************************************************)

\* The values of the sidebar's "Max retries per page" that the model follows.
RetryLimits == 0..MaxRetries

\* The texts x of `x in error_str` after which fetch_page tries again
NetworkErrors ==
    {"NameResolutionError", "ConnectionError", "Max retries exceeded",
     "timed out", "Connection reset"}

\* str(e) of the exceptions of requests.get, raise_for_status, response.json
\* and save_page_to_db, as the pieces they are made of.
ErrorStrings ==
    {<<"HTTPSConnectionPool", "Max retries exceeded", "NameResolutionError">>,
     <<"HTTPSConnectionPool", "Read", "timed out">>,
     <<"ConnectionError", "Connection reset", "by peer">>,
     <<"404 Client Error", "Not Found">>,
     <<"Expecting value">>,
     <<"unable to open database file">>}

\* The jitter random.uniform(0, 1), in tenths of a second.
JitterTenths == {0, 5, 9}

\* A test that takes every error for a network error.
IsNetworkError_Any(error_str) == TRUE

\* any(x in error_str for x in [...])
IsNetworkError(error_str) ==
    \E x \in NetworkErrors : \E k \in 1..Len(error_str) : error_str[k] = x

\* wait_time = (2 ** retry_count) + random.uniform(0, 1), in tenths of a second
WaitTime(retry_count, jitter) == 10 * (2 ^ retry_count) + jitter

\* The result fetch_page returns for a response that was read
ListingsPage_success(page, total_count, db_saved) ==
    [page |-> page, total_count |-> total_count, success |-> TRUE,
     db_saved |-> db_saved, error |-> << >>, retries |-> 0]

\* The result fetch_page returns for an error it does not try again after
ListingsPage_failure(page, error_str, retry_count) ==
    [page |-> page, total_count |-> 0, success |-> FALSE,
     db_saved |-> FALSE, error |-> error_str, retries |-> retry_count]

\* fetch_page is not running.
ListingsPage_idle ==
    [pc |-> "idle", max_retries |-> 0, retry_count |-> 0, requests |-> 0,
     waits |-> << >>, errors |-> << >>, result |-> ListingsPage_failure(0, << >>, 0)]

\* fetch_page(page_num, location_id, limit), with the max_retries of the sidebar
ListingsPage_call ==
    /\ pf.pc = "idle"
    /\ \E allowed \in RetryLimits :
         pf' = [ListingsPage_idle EXCEPT !.pc = "request",
                                         !.max_retries = allowed]
    /\ OnlySC /\ UNCHANGED sc

\* The try block: requests.get, raise_for_status, response.json and
\* save_page_to_db (False when the INSERT failed); and the except clause for
\* an exception of any of them
ListingsPage_request ==
    /\ pf.pc = "request"
    /\ \/ \E total_count \in 0..MaxTotal, db_saved \in BOOLEAN :
            pf' = [pf EXCEPT !.requests = @ + 1,
                             !.pc = "returned",
                             !.result = ListingsPage_success(1, total_count, db_saved)]
       \/ \E error_str \in ErrorStrings, jitter \in JitterTenths :
            IF pf.retry_count < pf.max_retries /\ IsNetworkError(error_str)
            THEN pf' = [pf EXCEPT !.requests = @ + 1,
                                  !.errors = Append(@, error_str),
                                  !.waits = Append(@, WaitTime(pf.retry_count, jitter)),
                                  !.pc = "sleep"]
            ELSE pf' = [pf EXCEPT !.requests = @ + 1,
                                  !.errors = Append(@, error_str),
                                  !.pc = "returned",
                                  !.result = ListingsPage_failure(1, error_str, pf.retry_count)]
    /\ OnlySC /\ UNCHANGED sc

\* time.sleep(wait_time) is over: return fetch_page(..., retry_count + 1)
ListingsPage_retry ==
    /\ pf.pc = "sleep"
    /\ pf' = [pf EXCEPT !.pc = "request", !.retry_count = @ + 1]
    /\ OnlySC /\ UNCHANGED sc

\* total_pages of fetch_first_page, given the result of fetch_page(1, ...)
fetch_first_page(result, limit) ==
    IF result.success /\ result.total_count > 0
       THEN (result.total_count + limit - 1) \div limit
       ELSE 0

\* The script before the button is pressed: none of the handler's names is
\* bound.
Scrape_idle ==
    [pc |-> "idle", limit |-> 1, first |-> ListingsPage_failure(1, << >>, 0),
     total_pages |-> 0, names |-> {}, completed_pages |-> 0,
     failed_pages |-> << >>, pending |-> {}, pool |-> FALSE,
     report |-> [completed |-> 0, failed |-> 0], error |-> "none"]

\* A handler that binds completed_pages and failed_pages for one page too.
OnePage_Bound(run) ==
    [run EXCEPT !.pc = "report", !.names = {"completed_pages", "failed_pages"},
                !.completed_pages = 1]

\* if total_pages == 1: progress_placeholder.success(...)
OnePage(run) == [run EXCEPT !.pc = "report"]

\* The handler of "Start Scraping" up to the pool: fetch_first_page, st.stop()
\* after a failure or without listings, the branch for one page, and for more
\* pages the names bound before the ThreadPoolExecutor is entered
Scrape_start ==
    /\ sc.pc = "idle"
    /\ \E limit \in 1..MaxLimit,
          first \in {ListingsPage_success(1, tc, saved) : tc \in 0..MaxTotal, saved \in BOOLEAN}
                    \cup {ListingsPage_failure(1, e, 0) : e \in ErrorStrings} :
         LET total_pages == fetch_first_page(first, limit)
             run == [sc EXCEPT !.limit = limit, !.first = first,
                               !.total_pages = total_pages]
         IN  sc' = IF ~first.success \/ total_pages = 0
                      THEN [run EXCEPT !.pc = "stopped"]
                   ELSE IF total_pages = 1
                      THEN OnePage(run)
                   ELSE [run EXCEPT !.pc = "pool",
                                    !.pool = TRUE,
                                    !.names = {"completed_pages", "failed_pages"},
                                    !.completed_pages = 1,
                                    !.pending = 2..total_pages]
    /\ OnlySC /\ UNCHANGED pf

\* for future in as_completed(future_to_page): the result of one of the pages,
\* in the order the futures complete; the with-block is left after the last
Scrape_completed ==
    /\ sc.pc = "pool"
    /\ \E page \in sc.pending, success \in BOOLEAN :
         sc' = [sc EXCEPT !.pending = @ \ {page},
                          !.completed_pages = @ + 1,
                          !.failed_pages = IF success THEN @ ELSE Append(@, page),
                          !.pc = IF sc.pending = {page} THEN "report" ELSE "pool"]
    /\ OnlySC /\ UNCHANGED pf

\* "Final results": the metrics, of which "Completed Pages" reads
\* completed_pages whether it is bound or not and "Failed Pages" reads
\* failed_pages only when it is in locals()
Scrape_report ==
    /\ sc.pc = "report"
    /\ sc' = IF "completed_pages" \in sc.names
                THEN [sc EXCEPT !.pc = "done",
                                !.report = [completed |-> sc.completed_pages,
                                            failed |-> IF "failed_pages" \in sc.names
                                                          THEN Len(sc.failed_pages)
                                                          ELSE 0]]
                ELSE [sc EXCEPT !.pc = "raised", !.error = "NameError"]
    /\ OnlySC /\ UNCHANGED pf

\* The script as loaded, no fetch_page running.
FreshSC ==
    /\ pf = ListingsPage_idle
    /\ sc = Scrape_idle

---------------------------------------------------------------------------
(* The specifications. *)

InitRL ==
    /\ \E mn \in MinDelays, mx \in MaxDelays, bf \in BackoffFactors, j \in Jitters :
         /\ FLeq(mn, mx)
         /\ FreshRL(mn, mx, bf, j)
    /\ FreshCB(5, 60)
    /\ fp = FetchPage_call(1)
    /\ FreshFA(FALSE, 0, Beyond + 1, TRUE)
    /\ fo = FetchOwner_idle
    /\ ut = NoCall
    /\ FreshDB(TRUE, TRUE)
    /\ FreshCV
    /\ FreshSC
    /\ now = 0

NextRL ==
    \/ RateLimiter_wait
    \/ RateLimiter_record_success
    \/ RateLimiter_record_failure
    \/ RateLimiter_reset
    \/ TickRL

SpecRL == InitRL /\ [][NextRL]_vars

InitCB ==
    /\ \E th \in FailureThresholds, rt \in RecoveryTimeouts : FreshCB(th, rt)
    /\ FreshRL(Float(1, 1), Float(60, 1), Float(2, 1), 0)
    /\ fp = FetchPage_call(1)
    /\ FreshFA(FALSE, 0, Beyond + 1, TRUE)
    /\ fo = FetchOwner_idle
    /\ ut = NoCall
    /\ FreshDB(TRUE, TRUE)
    /\ FreshCV
    /\ FreshSC
    /\ now = 0

NextCB ==
    \/ CircuitBreaker_enter
    \/ CircuitBreaker_exit
    \/ CircuitBreaker_record_failure
    \/ CircuitBreaker_record_success
    \/ CircuitBreaker_reset
    \/ TickCB

SpecCB == InitCB /\ [][NextCB]_vars

InitFP ==
    /\ \E page \in 1..MaxPage : fp = FetchPage_call(page)
    /\ FreshRL(Float(1, 1), Float(60, 1), Float(2, 1), 0)
    /\ FreshCB(5, 60)
    /\ FreshFA(FALSE, 0, Beyond + 1, TRUE)
    /\ fo = FetchOwner_idle
    /\ ut = NoCall
    /\ FreshDB(TRUE, TRUE)
    /\ FreshCV
    /\ FreshSC
    /\ now = 0

NextFP ==
    \/ FetchPage_attempt
    \/ FetchPage_give_up
    \/ FetchPage_again

SpecFP == InitFP /\ [][NextFP]_vars

\* The interleavings of main, the workers and the writer with --delay 0, at one
\* instant of the clock.
InitFA ==
    /\ \E dry_run \in BOOLEAN : FreshFA(dry_run, 0, Beyond + 1, TRUE)
    /\ FreshRL(Float(1, 1), Float(60, 1), Float(2, 1), 0)
    /\ FreshCB(5, 60)
    /\ fp = FetchPage_call(1)
    /\ fo = FetchOwner_idle
    /\ ut = NoCall
    /\ FreshDB(TRUE, TRUE)
    /\ FreshCV
    /\ FreshSC
    /\ now = 0

NextFA ==
    \/ Main_fetch_first
    \/ Main_push
    \/ Main_start_pool
    \/ Main_join
    \/ Main_wait
    \/ Process_exit
    \/ Worker_loop
    \/ Worker_get_next_page
    \/ Worker_fetch
    \/ Worker_put
    \/ Writer_get
    \/ Writer_commit
    \/ Writer_finish

SpecFA == InitFA /\ [][NextFA]_vars

\* The steps of main's thread, of the pool thread that runs worker w, and of
\* the writer thread.
MainStep ==
    \/ Main_fetch_first
    \/ Main_push
    \/ Main_start_pool
    \/ Main_join
    \/ Main_wait

WorkerStep(w) ==
    /\ Worker_loop \/ Worker_get_next_page \/ Worker_fetch \/ Worker_put
    /\ wk'[w] # wk[w]

WriterStep ==
    \/ Writer_get
    \/ Writer_commit
    \/ Writer_finish

\* A thread that can take a step takes it in the end: the interpreter switches
\* between the runnable threads, a request ends (timeout=60) and a sleep ends.
Fairness ==
    /\ WF_vars(MainStep)
    /\ \A w \in Workers : WF_vars(WorkerStep(w))
    /\ WF_vars(WriterStep)

\* A run that fetches the pages, against any API and any database.
InitFL ==
    /\ \E empty_from \in 2..(Beyond + 1), db_ok \in BOOLEAN :
         FreshFA(FALSE, 0, empty_from, db_ok)
    /\ FreshRL(Float(1, 1), Float(60, 1), Float(2, 1), 0)
    /\ FreshCB(5, 60)
    /\ fp = FetchPage_call(1)
    /\ fo = FetchOwner_idle
    /\ ut = NoCall
    /\ FreshDB(TRUE, TRUE)
    /\ FreshCV
    /\ FreshSC
    /\ now = 0

SpecFL == InitFL /\ [][NextFA]_vars /\ Fairness

\* A run that fetches the pages, with a positive --delay, while the clock runs.
InitFT ==
    /\ \E delay \in Delays : FreshFA(FALSE, delay, Beyond + 1, TRUE)
    /\ FreshRL(Float(1, 1), Float(60, 1), Float(2, 1), 0)
    /\ FreshCB(5, 60)
    /\ fp = FetchPage_call(1)
    /\ fo = FetchOwner_idle
    /\ ut = NoCall
    /\ FreshDB(TRUE, TRUE)
    /\ FreshCV
    /\ FreshSC
    /\ now = 0

NextFT ==
    \/ Main_fetch_first
    \/ Main_push
    \/ Main_start_pool
    \/ Main_join
    \/ Main_wait
    \/ Process_exit
    \/ Worker_loop
    \/ Worker_get_next_page
    \/ Worker_fetch
    \/ Worker_put
    \/ Writer_get
    \/ Writer_commit
    \/ Writer_finish
    \/ TickFA

SpecFT == InitFT /\ [][NextFT]_vars

\* Calls of fetch_owner_for_rera, one after the other, on the module's limiter.
InitOW ==
    /\ FreshRL(rate_limiter.min_delay, rate_limiter.max_delay,
               rate_limiter.backoff_factor, rate_limiter.jitter)
    /\ FreshCB(5, 60)
    /\ fp = FetchPage_call(1)
    /\ FreshFA(FALSE, 0, Beyond + 1, TRUE)
    /\ fo = FetchOwner_idle
    /\ ut = NoCall
    /\ FreshDB(TRUE, TRUE)
    /\ FreshCV
    /\ FreshSC
    /\ now = 0

NextOW ==
    \/ FetchOwner_call
    \/ FetchOwner_start
    \/ FetchOwner_send
    \/ FetchOwner_poll
    \/ FetchOwner_click
    \/ FetchOwner_secondary
    \/ FetchOwner_updated
    \/ FetchOwner_latest
    \/ FetchOwner_finish
    \/ FetchOwner_exit
    \/ FetchOwner_again
    \/ TickOW

SpecOW == InitOW /\ [][NextOW]_vars

\* The other parts while the functions of utils or the owners database run.
Others ==
    /\ FreshRL(Float(1, 1), Float(60, 1), Float(2, 1), 0)
    /\ FreshCB(5, 60)
    /\ fp = FetchPage_call(1)
    /\ FreshFA(FALSE, 0, Beyond + 1, TRUE)
    /\ fo = FetchOwner_idle
    /\ FreshCV
    /\ FreshSC
    /\ now = 0

\* A value is serialised and read back, or a string of the database is read.
InitSZ ==
    /\ \/ \E value \in JsonValues \cup Scalars, default \in Defaults :
            ut = SerializeCall(value, default)
       \/ \E s \in Texts, default \in Defaults :
            ut = DeserializeCall(Py("str", s), default)
    /\ FreshDB(TRUE, TRUE)
    /\ Others

NextSZ ==
    \/ Serialize_return
    \/ Deserialize_return

SpecSZ == InitSZ /\ [][NextSZ]_vars

\* Calls of has_owner_details and extract_owner_details on lists of texts.
InitTX ==
    /\ \E fn \in {"has_owner_details", "extract_owner_details"},
          responses_text \in ResponseTexts :
         ut = TextsCall(fn, responses_text)
    /\ FreshDB(TRUE, TRUE)
    /\ Others

NextTX ==
    \/ HasOwnerDetails_return
    \/ ExtractOwnerDetails_return

SpecTX == InitTX /\ [][NextTX]_vars

\* Calls of update_db_with_owner_details by the callers, on an owners database
\* whose file or table may be missing.
InitDB ==
    /\ \E file \in BOOLEAN, table \in BOOLEAN :
         /\ table => file
         /\ FreshDB(file, table)
    /\ ut = NoCall
    /\ Others

NextDB ==
    \/ \E c \in Callers : Update_select(c)
    \/ \E c \in Callers : Update_write(c)
    \/ \E c \in Callers : Update_again(c)

SpecDB == InitDB /\ [][NextDB]_vars

\* The other parts while the scripts run.
Idle ==
    /\ FreshRL(Float(1, 1), Float(60, 1), Float(2, 1), 0)
    /\ FreshCB(5, 60)
    /\ fp = FetchPage_call(1)
    /\ FreshFA(FALSE, 0, Beyond + 1, TRUE)
    /\ fo = FetchOwner_idle
    /\ ut = NoCall
    /\ FreshDB(TRUE, TRUE)
    /\ now = 0

\* Runs of get_owner_details, one after the other, each on a CSV file of its
\* own.
InitCV == FreshCV /\ FreshSC /\ Idle

NextCV ==
    \/ GetOwnerDetails_run
    \/ SendToTelegram_send
    \/ SendToTelegram_exchange
    \/ SendToTelegram_record
    \/ SendToTelegram_return

SpecCV == InitCV /\ [][NextCV]_vars

\* One call of fetch_all_listings' fetch_page.
NextPF ==
    \/ ListingsPage_call
    \/ ListingsPage_request
    \/ ListingsPage_retry

SpecPF == InitCV /\ [][NextPF]_vars

\* One run of the "Start Scraping" handler.
NextSC ==
    \/ Scrape_start
    \/ Scrape_completed
    \/ Scrape_report

SpecSC == InitCV /\ [][NextSC]_vars

---------------------------------------------------------------------------
(***************************************************************************)
(* Properties of the RateLimiter (checked under SpecRL).                   *)
(***************************************************************************)

One == Float(1, 1)

\* C1: for 0 < min_delay <= max_delay and backoff_factor >= 1, after any
\* sequence of record_success, record_failure, reset and wait calls,
\* min_delay <= current_delay <= max_delay.
C1_DelayWithinBounds ==
    /\ FLeq(limiter.min_delay, limiter.current_delay)
    /\ FLeq(limiter.current_delay, limiter.max_delay)

\* C1's case: a success whose quotient fell below min_delay, and a failure
\* whose product rose above max_delay.
C1_Witness ==
    \/ /\ rl_last = "record_success"
       /\ FLess(FDiv(rl_prev.current_delay, rl_prev.backoff_factor), limiter.min_delay)
    \/ /\ rl_last = "record_failure"
       /\ FLess(limiter.max_delay, FMul(rl_prev.current_delay, rl_prev.backoff_factor))

\* The record_failure calls in a row after which the delay of a fresh limiter
\* is max_delay (MaxFailures + 1: more than the model follows).
RECURSIVE FailuresToMax(_, _)
FailuresToMax(l, k) ==
    IF l.current_delay = l.max_delay THEN k
    ELSE IF k > MaxFailures THEN k
    ELSE FailuresToMax([l EXCEPT !.current_delay = FailureDelay(l)], k + 1)

EnoughFailures(l) == FailuresToMax([l EXCEPT !.current_delay = l.min_delay], 0)

\* C2: record_failure increments failure_count by exactly 1 and sets
\* current_delay to min(max_delay, current_delay * backoff_factor); with
\* backoff_factor > 1 the delay strictly increases whenever it was below
\* max_delay, and after enough consecutive failures it equals max_delay
\* exactly and stays there on further failures.
C2_RecordFailure ==
    /\ rl_last = "record_failure" =>
         /\ limiter.failure_count = rl_prev.failure_count + 1
         /\ limiter.current_delay =
              FMin(rl_prev.max_delay, FMul(rl_prev.current_delay, rl_prev.backoff_factor))
         /\ (FLess(One, limiter.backoff_factor)
               /\ FLess(rl_prev.current_delay, rl_prev.max_delay))
              => FLess(rl_prev.current_delay, limiter.current_delay)
         /\ rl_prev.current_delay = rl_prev.max_delay
              => limiter.current_delay = limiter.max_delay
    /\ (FLess(One, limiter.backoff_factor)
          /\ limiter.failure_count >= EnoughFailures(limiter))
         => limiter.current_delay = limiter.max_delay

\* C2's case: a failure raised the delay to max_delay, and a further failure
\* found it there.
C2_Witness ==
    /\ rl_last = "record_failure"
    /\ FLess(One, limiter.backoff_factor)
    /\ FLess(limiter.min_delay, limiter.max_delay)
    /\ rl_prev.current_delay = limiter.max_delay
    /\ limiter.failure_count > EnoughFailures(limiter)
    /\ EnoughFailures(limiter) > 2

\* x * y is exact: the float product is the product.
ExactProduct(x, y) ==
    LET p == FMul(x, y)
    IN  /\ p.e >= x.e + y.e
        /\ p.m * 2^(p.e - x.e - y.e) = x.m * y.m

\* One record_failure and then one record_success, on a fresh limiter.
FailureThenSuccess == rl_calls = <<"record_failure", "record_success">>

\* C3 as stated: record_success sets failure_count to 0 and current_delay to
\* max(min_delay, current_delay / backoff_factor); a success never increases
\* the delay, and one success directly after one failure from the initial state
\* returns the delay to min_delay.
C3_AsStated ==
    /\ rl_last = "record_success" =>
         /\ limiter.failure_count = 0
         /\ limiter.current_delay =
              FMax(rl_prev.min_delay, FDiv(rl_prev.current_delay, rl_prev.backoff_factor))
         /\ FLeq(limiter.current_delay, rl_prev.current_delay)
    /\ FailureThenSuccess => limiter.current_delay = limiter.min_delay

\* C3, amended: as stated, but one success directly after one failure from the
\* initial state returns the delay to min_delay when the float product
\* min_delay * backoff_factor is exact; when the product is rounded, the
\* quotient can round above min_delay, and the delay then stays between
\* min_delay and the delay the failure left.
C3_RecordSuccess ==
    /\ rl_last = "record_success" =>
         /\ limiter.failure_count = 0
         /\ limiter.current_delay =
              FMax(rl_prev.min_delay, FDiv(rl_prev.current_delay, rl_prev.backoff_factor))
         /\ FLeq(limiter.current_delay, rl_prev.current_delay)
    /\ FailureThenSuccess =>
         /\ ExactProduct(limiter.min_delay, limiter.backoff_factor)
              => limiter.current_delay = limiter.min_delay
         /\ FLeq(limiter.min_delay, limiter.current_delay)
         /\ FLeq(limiter.current_delay, rl_prev.current_delay)

\* C3's case: a failure that raised the delay, then a success that brought it
\* back to min_delay.
C3_Witness ==
    /\ FailureThenSuccess
    /\ rl_prev.failure_count = 1
    /\ FLess(limiter.min_delay, rl_prev.current_delay)
    /\ ExactProduct(limiter.min_delay, limiter.backoff_factor)
    /\ limiter.current_delay = limiter.min_delay

\* C4: reset, after any sequence of record_failure, record_success and wait
\* calls, restores the state of a freshly constructed limiter (current_delay =
\* min_delay, failure_count = 0, last_request_time = 0) and leaves min_delay,
\* max_delay, backoff_factor and jitter unchanged.
C4_Reset ==
    rl_last = "reset" =>
        /\ limiter.current_delay = rl_prev.min_delay
        /\ limiter.failure_count = 0
        /\ limiter.last_request_time = 0
        /\ limiter.min_delay = rl_prev.min_delay
        /\ limiter.max_delay = rl_prev.max_delay
        /\ limiter.backoff_factor = rl_prev.backoff_factor
        /\ limiter.jitter = rl_prev.jitter
        /\ limiter = RateLimiter_init(rl_prev.min_delay, rl_prev.max_delay,
                                      rl_prev.backoff_factor, rl_prev.jitter)

\* C4's case: a reset of a limiter that had failed, backed off and waited.
C4_Witness ==
    /\ rl_last = "reset"
    /\ rl_prev.failure_count > 0
    /\ rl_prev.last_request_time > 0
    /\ FLess(rl_prev.min_delay, rl_prev.current_delay)

---------------------------------------------------------------------------
(***************************************************************************)
(* Properties of the CircuitBreaker (checked under SpecCB).                *)
(***************************************************************************)

\* The operations that record a failure: a with-block whose body raised an
\* expected exception, and a direct record_failure call.
FailureOps == {"exit_expected", "record_failure"}

\* C5: a CircuitBreaker starts 'closed'; it stays 'closed' while fewer than
\* failure_threshold consecutive failures have been recorded, and its state
\* becomes 'open' exactly when the failure_threshold-th consecutive failure is
\* recorded (failure_count then equals failure_threshold).
C5_OpensAtThreshold ==
    /\ cb_call.op = "init" => breaker.state = "closed"
    /\ cb_run < breaker.failure_threshold => breaker.state = "closed"
    /\ (cb_call.op \in FailureOps /\ cb_run = breaker.failure_threshold)
         => /\ breaker.state = "open"
            /\ breaker.failure_count = breaker.failure_threshold
    /\ (cb_call.before.state = "closed" /\ breaker.state # "closed")
         => /\ cb_call.op \in FailureOps
            /\ cb_run = breaker.failure_threshold
            /\ breaker.state = "open"

\* C5's case: the breaker was closed after failure_threshold - 1 failures and
\* one more failure in a with-block opened it.
C5_Witness ==
    /\ cb_call.op = "exit_expected"
    /\ breaker.failure_threshold >= 2
    /\ cb_call.before.state = "closed"
    /\ cb_call.before.failure_count = breaker.failure_threshold - 1
    /\ breaker.state = "open"

\* C6: while a CircuitBreaker is 'open' and less than recovery_timeout seconds
\* have passed since its last recorded failure, entering a with-block raises
\* CircuitBreakerOpenError, the body is not executed, and state, failure_count
\* and last_failure_time are left unchanged.
C6_OpenRefuses ==
    (/\ cb_call.op = "enter"
     /\ cb_call.before.state = "open"
     /\ cb_call.before.last_failure_time # None
     /\ cb_call.at - cb_call.before.last_failure_time < cb_call.before.recovery_timeout)
    => /\ cb_call.raised = "CircuitBreakerOpenError"
       /\ cb_pc = "idle"
       /\ breaker.state = cb_call.before.state
       /\ breaker.failure_count = cb_call.before.failure_count
       /\ breaker.last_failure_time = cb_call.before.last_failure_time

\* C6's case: a with-block refused one second after the failure that opened the
\* breaker, the recovery timeout being longer.
C6_Witness ==
    /\ cb_call.op = "enter"
    /\ cb_call.raised = "CircuitBreakerOpenError"
    /\ breaker.state = "open"
    /\ cb_call.at = breaker.last_failure_time + 1
    /\ cb_pc = "idle"

\* C7: when the body of a with-block raises an instance of expected_exception,
\* the exception is suppressed, failure_count is incremented by exactly 1 and
\* last_failure_time is set.
C7_ExpectedSuppressed ==
    cb_call.op = "exit_expected"
    => /\ cb_call.raised = "none"
       /\ breaker.failure_count = cb_call.before.failure_count + 1
       /\ breaker.last_failure_time # None
       /\ breaker.last_failure_time = cb_call.at

\* C7's case: a second failing with-block, later than the first.
C7_Witness ==
    /\ cb_call.op = "exit_expected"
    /\ cb_call.before.failure_count = 1
    /\ cb_call.before.last_failure_time # None
    /\ cb_call.before.last_failure_time < breaker.last_failure_time
    /\ cb_call.raised = "none"

\* C8: a with-block whose body completes without raising leaves the breaker
\* 'closed' with failure_count = 0; only consecutive failures count towards
\* opening: a success between failures restarts the count, so
\* failure_threshold - 1 failures, one success, then failure_threshold - 1
\* failures leave the breaker 'closed'.
C8_SuccessRestartsCount ==
    /\ cb_call.op = "exit_none"
         => /\ breaker.state = "closed"
            /\ breaker.failure_count = 0
            /\ cb_call.raised = "none"
    /\ breaker.failure_count = cb_run
    /\ (cb_prev_run < breaker.failure_threshold /\ cb_run < breaker.failure_threshold)
         => breaker.state = "closed"

\* C8's case: failure_threshold - 1 failures, a success, failure_threshold - 1
\* failures, and the breaker is closed.
C8_Witness ==
    /\ breaker.failure_threshold >= 2
    /\ cb_prev_run = breaker.failure_threshold - 1
    /\ cb_run = breaker.failure_threshold - 1
    /\ cb_call.op = "exit_expected"
    /\ breaker.state = "closed"

---------------------------------------------------------------------------
(***************************************************************************)
(* Properties of fetch_agents.fetch_page (checked under SpecFP).           *)
(***************************************************************************)

\* The last session.get call returned a response with a status below 400.
LastBelow400 == fp.last.kind = "response" /\ fp.last.status < 400

\* The last session.get call returned a 4xx response other than 429.
LastClientError ==
    /\ fp.last.kind = "response"
    /\ 400 <= fp.last.status /\ fp.last.status < 500
    /\ fp.last.status # 429

\* The last session.get call ended in a 5xx status, a 429, a timeout, a
\* connection error or another exception.
LastFailed ==
    \/ fp.last.kind = "response" /\ (fp.last.status >= 500 \/ fp.last.status = 429)
    \/ fp.last.kind \in ExceptionKinds

\* What C9 says of the attempts (the session.get calls) and of the result.
RetryThenGiveUp ==
    /\ fp.calls <= max_retries
    /\ fp.state # "raised"
    /\ ~fp.passed
    /\ LastBelow400 => (fp.state = "returned" /\ fp.result = "resp")
    /\ fp.result = "resp" => LastBelow400
    /\ LastClientError => (fp.state = "returned" /\ fp.result = "None")
    /\ (fp.state = "returned" /\ fp.result = "None")
         => \/ LastClientError
            \/ fp.calls = max_retries /\ LastFailed
    /\ (fp.state = "running" /\ fp.calls > 0) => (LastFailed /\ fp.calls = fp.attempt)

\* C9 as stated: fetch_page issues at most max_retries (default 5) HTTP
\* requests for one page; it returns the response at the first attempt whose
\* status is below 400; it returns None at once on a 4xx status other than 429;
\* it returns None after max_retries attempts that each ended in a 5xx status,
\* a 429, a timeout, a connection error or another exception; it never raises.
C9_AsStated ==
    /\ RetryThenGiveUp
    /\ fp.requests <= max_retries

\* C9, amended: as stated, with "at most max_retries session.get calls" for "at
\* most max_retries HTTP requests": the session's adapter sends a request up to
\* retries + 1 times within one session.get call, so that the HTTP requests of
\* the calls are at most max_retries * (retries + 1).
C9_FetchPage ==
    /\ RetryThenGiveUp
    /\ fp.requests <= fp.calls * (retries + 1)

\* C9's case: the fifth attempt failed like the four before it, and fetch_page
\* gave up and returned None.
C9_Witness ==
    /\ fp.state = "returned"
    /\ fp.result = "None"
    /\ fp.calls = max_retries
    /\ LastFailed
    /\ fp.requests = max_retries

---------------------------------------------------------------------------
(***************************************************************************)
(* Properties of fetch_agents.worker_loop (checked under SpecFA).          *)
(***************************************************************************)

\* C10: in worker_loop, a page whose fetch gave up (fetch_page returned None)
\* or whose body is not valid JSON is skipped: nothing from that page is put on
\* the queue, the page number is never requested again by any worker,
\* stop_event is not set because of it, and the worker goes on to take the next
\* page number (it is back at the head of its loop).
C10_FailedPageSkipped ==
    /\ \A page \in hist.failed :
         /\ \A item \in hist.queued : item.page # page
         /\ hist.fetched[page] = 1
         /\ \A w \in Workers : wk[w].pc \in {"fetch", "put"} => wk[w].page # page
         /\ page \notin hist.stop_by
    /\ \A w \in Workers : wk[w].op = "bad_page" => wk[w].pc = "loop"

\* C10's case: the fetch of page 2 failed, and the worker that had it went on
\* to take page 3, no other worker having taken a page.
C10_Witness ==
    \E w \in Workers :
        /\ 2 \in hist.failed
        /\ wk[w].page = 3
        /\ wk[w].op = "page"
        /\ hist.handed = <<2, 3>>
        /\ \A v \in Workers \ {w} : wk[v].page = 0
        /\ ~stop_event

\* The pages handed out so far are 2, 3, 4, ... in this order, each handed out
\* once; no page is fetched twice, and no worker has page 1.
PagesInOrder ==
    /\ \A k \in 1..Len(hist.handed) : hist.handed[k] = k + 1
    /\ \A page \in 1..MaxPage : hist.fetched[page] <= 1
    /\ \A w \in Workers : wk[w].page # 1
    /\ \A w \in Workers, v \in Workers :
         (w # v /\ wk[w].page = wk[v].page) => wk[w].page \in {0, Beyond}

\* A call of get_next_page by worker w: it returns None once stop_event is set,
\* and otherwise the counter's value, the counter going up by one.
CallOfGetNextPage(w) ==
    (wk[w].pc = "next" /\ wk'[w].pc # "next") =>
        IF stop_event
        THEN /\ wk'[w].pc = "done"
             /\ wk'[w].page = wk[w].page
             /\ next_page' = next_page
             /\ hist'.handed = hist.handed
        ELSE /\ wk'[w].pc = "fetch"
             /\ wk'[w].page = next_page
             /\ next_page' = next_page + 1 \/ next_page = Beyond

\* C18: under any interleaving of the worker threads, get_next_page hands each
\* page number 2, 3, 4, ... to at most one caller, in strictly increasing order
\* and without gaps, and returns None to every call that takes the lock after
\* stop_event has been set; no page is fetched by two workers and page 1 is
\* fetched only by main.
C18_PageCounter ==
    /\ []PagesInOrder
    /\ [][\A w \in Workers : CallOfGetNextPage(w)]_vars

\* C18's case: the two workers took pages 2 and 3, page 3 was empty, and the
\* worker of page 2 then asked for a page and got None.
C18_Witness ==
    \E w \in Workers, v \in Workers :
        /\ wk[w].page = 2
        /\ wk[v].page = 3
        /\ hist.handed = <<2, 3>>
        /\ hist.stop_by = {3}
        /\ Item(2, 1) \in hist.queued
        /\ wk[w].op = "no_page"

\* The items that db_writer has taken from the queue.
Taken == {writer.taken[k] : k \in 1..Len(writer.taken)}

\* C20: fetch_agents.main waits for the writer thread to finish: in a non-dry
\* run, main does not pass its final stop_event.wait() and log 'All done' until
\* db_writer has taken the None sentinel from the queue, committed every row
\* queued before it and closed the connection, under every interleaving of
\* workers and writer.
C20_MainWaitsForWriter ==
    main.pc = "done" =>
        /\ writer.pc = "finished"
        /\ q = << >>
        /\ hist.queued \subseteq Taken
        /\ writer.pending = {}

(***************************************************************************)
(* Termination of fetch_agents (checked under SpecFL).                     *)
(***************************************************************************)

\* Every worker has left worker_loop, the pool is complete and main is over.
AllOver ==
    /\ main.pc \in {"returned", "done", "raised"}
    /\ \A w \in Workers : wk[w].pc \in {"idle", "done", "raised"}

C11_AsStated == hist.pool_gap # None => hist.pool_gap >= main.delay

\* C11, amended: each worker of the pool limits its own rate (--delay is the
\* minimum delay between requests per worker): any two consecutive page
\* requests issued by the same worker start at least min_delay seconds apart;
\* requests of different workers can start at the same time.
C11_PerWorker ==
    \A w \in Workers : wk[w].since # None => wk[w].since >= main.delay

\* C11's case: a worker whose second request waited until min_delay had passed
\* since its first, while another worker's request started in between.
C11_Witness ==
    \E w \in Workers, v \in Workers :
        /\ w # v
        /\ wk[w].since = main.delay
        /\ wk[w].wake = wk[w].last_request_time
        /\ wk[v].last_request_time # 0
        /\ wk[v].last_request_time < wk[w].last_request_time
        /\ wk[w].last_request_time - wk[v].last_request_time < main.delay

(***************************************************************************)
(* Properties of fetch_owner_for_rera (checked under SpecOW).              *)
(***************************************************************************)

\* What follows the polling when the button is clicked, in order.
AfterClick == <<"click", "secondary", "updated", "latest">>

\* One message sent, then polls polls, then the first reads steps of AfterClick.
Exchange(polls, reads) ==
    <<"send">> \o [k \in 1..polls |-> "poll"] \o SubSeq(AfterClick, 1, reads)

\* C12: the state-polling protocol of fetch_owner_for_rera: per call it sends
\* one message to the bot, then polls for the initial reply at most 3 times,
\* stops polling at the first poll that returns a message with non-empty text
\* or with buttons, and clicks the first button at most once, only after
\* polling has ended and only if the first returned message carries buttons;
\* all further reads (secondary, updated, latest message) happen only after
\* that click.  (A call that an exception ends has done a first part of this,
\* and a call that returns 'success' has sent exactly one message.)
C12_PollingProtocol ==
    /\ \/ fo.log = << >>
       \/ \E polls \in 0..3, reads \in 0..4 : fo.log = Exchange(polls, reads)
    /\ Len(fo.met) <= 3
    /\ \A k \in 1..Len(fo.met) :
         (fo.met[k].content \/ fo.met[k].buttons) => k = Len(fo.met)
    /\ (\E k \in 1..Len(fo.log) : fo.log[k] = "click") =>
          /\ fo.response # << >>
          /\ fo.response[1].buttons
          /\ fo.pc \notin {"send", "poll"}
    /\ fo.status = "success" => fo.log # << >>

\* C12's case: two polls without an answer, a third poll whose first message
\* carries buttons, the click, the three reads, and the call returned success.
C12_Witness ==
    /\ fo.log = Exchange(3, 4)
    /\ \A k \in 1..2 : ~fo.met[k].content /\ ~fo.met[k].buttons
    /\ fo.response[1].buttons
    /\ fo.pc = "returned"
    /\ fo.status = "success"

---------------------------------------------------------------------------
(***************************************************************************)
(* Claims about update_db_with_owner_details and the owners table          *)
(***************************************************************************)

\* C13: update_db_with_owner_details returns True if the owners database was
\* updated and False otherwise: a failed write (missing database, SQL error)
\* reaches the caller as the return value False, never as a raised exception.
C13_FailureReturnsFalse ==
    \A c \in Callers :
        upd.calls[c].pc = "returned" => upd.calls[c].result \in {"True", "False"}

\* The rows of the owners table for a listing.
RowsOf(rows, listing_id) == {r \in rows : r.listing_id = listing_id}

\* The row of a listing carries the arguments of a call, as get_owner_details
\* reads them back.
Carries(r, a) ==
    /\ r.rera = a.rera
    /\ deserialize_from_db(r.owner_names, Py("list", << >>)) = a.owner_names
    /\ deserialize_from_db(r.owner_phones, Py("list", << >>)) = a.owner_phones
    /\ deserialize_from_db(r.owner_emails, Py("list", << >>)) = a.owner_emails

\* The table after the calls that returned True so far.
OneRowPerListing ==
    \A l \in Listings :
        /\ Cardinality(RowsOf(owners.rows, l)) <= 1
        /\ upd.committed[l] = NothingCommitted <=> RowsOf(owners.rows, l) = {}
        /\ \A r \in RowsOf(owners.rows, l) :
             /\ Carries(r, upd.committed[l])
             /\ r.id = upd.inserted[l]

\* A step that changes the rows of a listing is the return of True by a call
\* for that listing; it is an INSERT only if the listing had no row.
OnlyItsListing ==
    \A l \in Listings :
        RowsOf(owners'.rows, l) # RowsOf(owners.rows, l)
        => \E c \in Callers :
             /\ upd.calls[c].pc = "write"
             /\ upd.calls[c].listing_id = l
             /\ upd'.calls[c] = [pc |-> "returned", result |-> "True"]
             /\ upd'.inserted[l] # upd.inserted[l] => RowsOf(owners.rows, l) = {}

\* C14: after any calls of update_db_with_owner_details that returned True the
\* owners table holds at most one row per listing_id, and that row carries the
\* rera, owner_names, owner_phones and owner_emails of the last such call for
\* the listing (the first call inserts the row, later calls update it in
\* place); a call leaves the rows of the other listings as they are.
C14_OneRowPerListing == []OneRowPerListing /\ [][OnlyItsListing]_vars

\* Both callers have written the row of L1, which was inserted once and then
\* updated with other details, while L2 has its own row.
C14_Witness ==
    /\ upd.updated["L1"]
    /\ upd.inserted["L2"] # 0
    /\ \E r \in RowsOf(owners.rows, "L1") :
         /\ r.id = upd.inserted["L1"]
         /\ r.owner_names = serialize_for_db(SomeDetails.owner_names)
    /\ \E r \in RowsOf(owners.rows, "L2") : r.owner_names = PyNone
    /\ \A c \in Callers :
         upd.calls[c] = [pc |-> "returned", result |-> "True"]

---------------------------------------------------------------------------
(***************************************************************************)
(* Claims about the helpers of utils                                       *)
(***************************************************************************)

\* A text contains actual owner details: the marker, or a name field and a
\* phone field.
ContainsDetails(text) ==
    \/ \E i \in 1..Len(text) : HasMarker(text[i])
    \/ /\ \E i \in 1..Len(text) : NameField(text[i])
       /\ \E i \in 1..Len(text) : PhoneField(text[i])

\* C15: has_owner_details(texts) returns True if and only if some text of the
\* list contains the 'owner details:' marker or both a name field and a phone
\* field, wherever that text stands in the list; it returns False for an empty
\* list, for empty or blank texts and when only a name or only a phone is there.
C15_HasOwnerDetails ==
    ut.fn = "returned has_owner_details"
    => (ut.found <=> \E i \in 1..Len(ut.responses_text) :
                        ContainsDetails(ut.responses_text[i]))

\* The stripped values that a pattern captures in the lines of the combined
\* text, line by line ("" for a line without a match).
Captures(pattern, lines) ==
    [k \in 1..Len(lines) |->
        StripValue(CASE pattern = "name" -> NameCaptured(lines[k])
                     [] pattern = "phone" -> PhoneCaptured(lines[k])
                     [] pattern = "email" -> EmailCaptured(lines[k]))]

\* The line of the first occurrence of a value.
FirstOccurrence(captures, value) ==
    CHOOSE k \in 1..Len(captures) :
        /\ captures[k] = value
        /\ \A j \in 1..(k - 1) : captures[j] # value

\* A list holds every captured value once, in the order of first occurrence.
OnceInOrder(values, captures) ==
    /\ \A i, j \in 1..Len(values) : values[i] = values[j] => i = j
    /\ {values[i] : i \in 1..Len(values)}
         = {captures[k] : k \in 1..Len(captures)} \ {""}
    /\ \A i, j \in 1..Len(values) :
         i < j => FirstOccurrence(captures, values[i])
                    < FirstOccurrence(captures, values[j])

\* C16: none of the three lists that extract_owner_details returns holds a
\* duplicate: every distinct matched value is there exactly once, in the order of
\* its first occurrence across the response texts, also when an owner block is
\* repeated in several responses.
C16_NoDuplicates ==
    ut.fn = "returned extract_owner_details"
    => LET lines == Combined(ut.responses_text)
       IN  /\ OnceInOrder(ut.owner_names, Captures("name", lines))
           /\ OnceInOrder(ut.owner_phones, Captures("phone", lines))
           /\ OnceInOrder(ut.owner_emails, Captures("email", lines))

\* The owner block came twice, with the fields of another owner in between.
C16_Witness ==
    /\ ut.fn = "returned extract_owner_details"
    /\ ut.responses_text = <<OwnerText.block, OwnerText.fields, OwnerText.block>>
    /\ ut.owner_names = <<"John Doe", "Jane Smith">>
    /\ ut.owner_phones = <<"+1234567890", "+0987654321">>
    /\ ut.owner_emails = <<"jane@example.com">>

\* A value holds a float that JSON does not have (NaN).
RECURSIVE HoldsNaN(_)
HoldsNaN(value) ==
    CASE value.t = "float" -> TRUE
      [] value.t = "list" -> \E i \in 1..Len(value.v) : HoldsNaN(value.v[i])
      [] value.t = "dict" -> \E i \in 1..Len(value.v) : HoldsNaN(value.v[i][2])
      [] OTHER -> FALSE

\* The string is a JSON document: the decoder reads it, without a constant that
\* JSON does not have.
ValidJson(s) == Loads(s).ok /\ ~HoldsNaN(Loads(s).val)

\* The first two parts of C17: the round trip of a list or dict that is not
\* empty, and the default for None, [] and {}.
RoundTrip ==
    (ut.fn = "returned" /\ ut.given = "value")
    => /\ (ut.value \in JsonValues /\ ~IsEmpty(ut.value)) => ut.result = ut.value
       /\ (ut.value = PyNone \/ IsEmpty(ut.value))
          => (ut.json_str = PyNone /\ ut.result = ut.default)

\* C17 as stated: for every non-empty list or dict v of JSON values
\* deserialize_from_db(serialize_for_db(v), d) equals v; for None, an empty list
\* and an empty dict serialize_for_db returns None and deserialize_from_db(None,
\* d) returns d; and deserialize_from_db returns d for any string that is not
\* valid JSON.
C17_AsStated ==
    /\ RoundTrip
    /\ (ut.fn = "returned" /\ ut.given = "json_str" /\ ~ValidJson(ut.json_str.v))
       => ut.result = ut.default

\* C17: the round trip and the default for None, [] and {} as stated; and
\* deserialize_from_db returns d for any string that is not valid JSON, except a
\* string that is a JSON document but for the constants NaN, Infinity and
\* -Infinity in it: json.loads reads those, and the value with the float is
\* returned.
C17_RoundTrip ==
    /\ RoundTrip
    /\ (ut.fn = "returned" /\ ut.given = "json_str" /\ ~ValidJson(ut.json_str.v))
       => \/ ut.result = ut.default
          \/ /\ ut.result.t \in {"float", "list", "dict"}
             /\ HoldsNaN(ut.result)
             /\ \E i \in 1..Len(ut.json_str.v) : ut.json_str.v[i] = "NaN"

\* A list with a string that needs escaping and a dict in it came back as it
\* was.
C17_Witness ==
    /\ ut.fn = "returned"
    /\ ut.given = "value"
    /\ ut.value = Py("list", <<Py("str", <<"é", "\"">>), Py("dict", <<<<<<"k">>, PyNone>>>>)>>)
    /\ ut.json_str = Py("str", <<"[", "\"", "é", "\\", "\"", "\"", ",", " ",
                             "{", "\"", "k", "\"", ":", " ", "null", "}", "]">>)
    /\ ut.result = ut.value

---------------------------------------------------------------------------
(***************************************************************************)
(* Claims about db_writer                                                  *)
(***************************************************************************)

\* The items of a sequence.
Range(seq) == {seq[k] : k \in 1..Len(seq)}

\* What db_writer has done so far: it took no None for an item and no item
\* twice; every row it inserted is an item it took; once it has met None it
\* has taken every item that was put; it has set stop_event only when it has
\* finished, with nothing left to commit.
WriterSoFar ==
    /\ Sentinel \notin Range(writer.taken)
    /\ \A i, j \in 1..Len(writer.taken) :
         writer.taken[i] = writer.taken[j] => i = j
    /\ writer.rows \cup writer.pending \subseteq Range(writer.taken)
    /\ writer.inserted <= Len(writer.taken)
    /\ writer.pc \in {"commit", "close", "finished"}
       => Range(writer.taken) = hist.queued
    /\ 0 \in hist.stop_by => writer.pc = "finished" /\ writer.pending = {}

\* A step of db_writer and of the queue: the queue loses its head or gains an
\* item at its end; an item is taken from the head of the queue, and None ends
\* the loop; after None nothing is taken; stop_event is set by the step that
\* closes the connection, after the final commit.
WriterStepwise ==
    /\ q' # q
       => \/ q # << >> /\ q' = Tail(q)
          \/ \E item \in hist'.queued \cup {Sentinel} : q' = Append(q, item)
    /\ (q # << >> /\ q' = Tail(q))
       => /\ writer.pc = "get"
          /\ IF Head(q) = Sentinel
             THEN writer'.pc = "commit" /\ writer'.taken = writer.taken
             ELSE writer'.pc = "get"
                  /\ writer'.taken = Append(writer.taken, Head(q))
    /\ writer'.taken # writer.taken => q # << >> /\ q' = Tail(q)
    /\ (0 \in hist'.stop_by /\ 0 \notin hist.stop_by)
       => writer.pc = "close" /\ writer.pending = {} /\ stop_event'
    /\ writer'.pc = "close" => writer.pc \in {"commit", "close"}

\* C21: db_writer takes the items from the queue in the order they were put,
\* attempts the insert of every item put before the None exactly once, goes on
\* after an item whose insert raises, stops at the first None, and sets
\* stop_event only after its final commit and the closing of the connection.
C21_WriterProtocol == []WriterSoFar /\ [][WriterStepwise]_vars

\* The writer has finished after two items: the insert of the first raised, the
\* second is in the table, and the writer has set stop_event.
C21_Witness ==
    /\ writer.pc = "finished"
    /\ writer.taken = <<Item(1, 1), Item(2, 1)>>
    /\ writer.rows = {Item(2, 1)}
    /\ 0 \in hist.stop_by
    /\ q = << >>

---------------------------------------------------------------------------
(***************************************************************************)
(* Claims about fetch_owner_for_rera and the rate limiter                  *)
(***************************************************************************)

\* The call went on after the Telethon check and validate_rera.
PassedChecks == fo.pc # "idle" /\ EarlyReturn(fo.telethon, fo.rera) = "none"

\* The limiter methods a call has called, while it runs: wait first, then
\* record_success at the end of the exchange.
WhileItRuns ==
    (PassedChecks /\ fo.pc # "returned")
    => /\ fo.limiter_calls
            = IF fo.pc = "exit" THEN <<"wait", "record_success">> ELSE <<"wait">>
       /\ fo.pc = "exit" <=> fo.status = "success"

\* C22 as stated: a call that passes the Telethon and RERA checks calls
\* rate_limiter.wait once and then exactly one of record_success and
\* record_failure: record_success if and only if the returned status is
\* 'success', record_failure if and only if an exception occurred in the
\* exchange, which is not propagated: the call returns status 'error'.
C22_AsStated ==
    /\ WhileItRuns
    /\ (PassedChecks /\ fo.pc = "returned")
       => /\ fo.limiter_calls \in {<<"wait", "record_success">>,
                                   <<"wait", "record_failure">>}
          /\ fo.limiter_calls[2] = "record_success" <=> fo.status = "success"
          /\ fo.limiter_calls[2] = "record_failure" <=> fo.error = "exception"
          /\ fo.error = "exception" => fo.status = "error"

\* C22: a call that passes the checks calls rate_limiter.wait once, then
\* record_success if the exchange reaches its end, and record_failure if and
\* only if an exception occurred, which is not propagated: the call returns
\* status 'error'.  Both are called, in that order, when the exception comes
\* after record_success, while the session is left; the status is 'success' if
\* and only if record_success was the last call.
C22_LimiterCalls ==
    /\ WhileItRuns
    /\ (PassedChecks /\ fo.pc = "returned")
       => /\ fo.limiter_calls \in {<<"wait", "record_success">>,
                                   <<"wait", "record_failure">>,
                                   <<"wait", "record_success", "record_failure">>}
          /\ fo.limiter_calls[Len(fo.limiter_calls)] = "record_success"
             <=> fo.status = "success"
          /\ fo.limiter_calls[Len(fo.limiter_calls)] = "record_failure"
             <=> fo.error = "exception"
          /\ fo.error = "exception" <=> fo.status = "error"

\* A poll raised after the message was sent: the call returned an error and
\* told the limiter of the failure.
C22_Witness ==
    /\ fo.pc = "returned"
    /\ fo.log = <<"send", "poll">>
    /\ fo.limiter_calls = <<"wait", "record_failure">>
    /\ fo.status = "error"
    /\ limiter.failure_count = 1

\* A non-empty string of digits and dashes.
DigitsAndDashes(rera) ==
    /\ rera.t = "str"
    /\ rera.v # << >>
    /\ \A k \in 1..Len(rera.v) : rera.v[k] \in {"1", "-"}

\* What a call that returned did not do: no session, no message, no call of the
\* limiter.
NothingDone ==
    /\ fo.pc = "returned"
    /\ fo.status = "error"
    /\ fo.log = << >>
    /\ fo.met = << >>
    /\ fo.limiter_calls = << >>

\* The step that starts a call with a rera that validate_rera rejects leaves
\* the limiter as it is.
LimiterUntouched ==
    (fo.pc = "idle" /\ fo'.pc # "idle" /\ ~validate_rera(fo'.rera))
    => limiter' = limiter

\* C23 as stated: validate_rera rejects anything but a non-empty string of
\* digits and dashes, and a call with a rera that it rejects returns status
\* 'error' with error 'Invalid RERA format', sends no message, opens no session
\* and leaves the limiter unchanged.
C23_AsStated ==
    fo.pc # "idle"
    => /\ validate_rera(fo.rera) <=> DigitsAndDashes(fo.rera)
       /\ ~validate_rera(fo.rera)
          => NothingDone /\ fo.error = "Invalid RERA format"

\* The rera, stripped of the whitespace around it, is a non-empty string of
\* digits and dashes.
DigitsAndDashesInside(rera) ==
    /\ rera.t = "str"
    /\ DigitsAndDashes(Py("str", StripSpaces(rera.v)))

\* A call with a rera that validate_rera rejects has done nothing and returned
\* the error of the first check that failed.
RejectedRera ==
    fo.pc # "idle"
    => /\ validate_rera(fo.rera) <=> DigitsAndDashesInside(fo.rera)
       /\ ~validate_rera(fo.rera)
          => /\ NothingDone
             /\ fo.error = IF fo.telethon THEN "Invalid RERA format"
                           ELSE "Telethon not installed"

\* C23: validate_rera rejects anything but a string that is, without the
\* whitespace around it, a non-empty string of digits and dashes; a call with a
\* rera that it rejects returns status 'error' with error 'Invalid RERA format'
\* ('Telethon not installed' where Telethon is missing: that check comes
\* first), sends no message, opens no session and leaves the limiter's
\* current_delay, failure_count and last_request_time unchanged.
C23_InvalidRera == []RejectedRera /\ [][LimiterUntouched]_vars

\* After a call that failed, a call with the rera 'A1' was turned down.
C23_Witness ==
    /\ fo.pc = "returned"
    /\ fo.rera = Py("str", <<"A", "1">>)
    /\ fo.telethon
    /\ fo.error = "Invalid RERA format"
    /\ limiter.failure_count = 1
    /\ rl_last = "record_failure"

---------------------------------------------------------------------------
(***************************************************************************)
(* Recovery and invariants of the CircuitBreaker (checked under SpecCB).   *)
(***************************************************************************)

\* The last operation was __enter__ on an open breaker whose recovery_timeout
\* had passed since the last recorded failure.
EnteredAfterTimeout ==
    /\ cb_call.op = "enter"
    /\ cb_call.before.state = "open"
    /\ cb_call.before.last_failure_time # None
    /\ cb_call.at - cb_call.before.last_failure_time
         >= cb_call.before.recovery_timeout

\* The last operation was the __exit__ of a with-block that found the breaker
\* half-open, the body having ended with result exc.
ExitedHalfOpen(exc) ==
    /\ cb_call.op = "exit_" \o exc
    /\ cb_call.before.state = "half-open"

\* C24: when the breaker is 'open' and at least recovery_timeout seconds have
\* passed since the last recorded failure, entering a with-block moves it to
\* 'half-open' and runs the body; a body that completes moves it to 'closed'
\* with failure_count 0; a body that raises an expected exception moves it back
\* to 'open' after that single failure.  The breaker is never 'half-open' once
\* a with-block has exited.
C24_Recovery ==
    /\ EnteredAfterTimeout
         => /\ cb_call.raised = "none"
            /\ cb_pc = "body"
            /\ breaker.state = "half-open"
    /\ ExitedHalfOpen("none")
         => /\ breaker.state = "closed"
            /\ breaker.failure_count = 0
    /\ ExitedHalfOpen("expected")
         => /\ breaker.state = "open"
            /\ breaker.failure_count = cb_call.before.failure_count + 1
            /\ cb_call.raised = "none"
    /\ cb_pc = "idle" => breaker.state # "half-open"

\* C24's case: a breaker with a threshold of two and a recovery timeout was
\* half-open, and the one failure of the body opened it again.
C24_Witness ==
    /\ ExitedHalfOpen("expected")
    /\ breaker.failure_threshold = 2
    /\ breaker.recovery_timeout >= 1
    /\ cb_call.before.failure_count = 2
    /\ breaker.state = "open"

\* C25: for a breaker with failure_threshold >= 1, state is one of 'closed',
\* 'open', 'half-open'; 'closed' implies failure_count < failure_threshold;
\* 'open' and 'half-open' imply failure_count >= failure_threshold and a
\* last_failure_time that is set.
C25_StateAndCount ==
    breaker.failure_threshold >= 1
    => /\ breaker.state \in {"closed", "open", "half-open"}
       /\ breaker.state = "closed"
            => breaker.failure_count < breaker.failure_threshold
       /\ breaker.state \in {"open", "half-open"}
            => /\ breaker.failure_count >= breaker.failure_threshold
               /\ breaker.last_failure_time # None

\* C25's case: the body of a with-block on a half-open breaker called
\* record_failure, which opened the breaker with more failures than the
\* threshold.
C25_Witness ==
    /\ cb_pc = "body"
    /\ cb_call.op = "record_failure"
    /\ cb_call.before.state = "half-open"
    /\ breaker.state = "open"
    /\ breaker.failure_count = breaker.failure_threshold + 1

\* C26: when the body of a with-block raises an exception that is not an
\* instance of expected_exception, the exception reaches the caller and the
\* breaker records a success: failure_count is 0 and state is 'closed', whatever
\* they were.
C26_OtherIsSuccess ==
    cb_call.op = "exit_other"
    => /\ cb_call.raised = "body"
       /\ breaker.failure_count = 0
       /\ breaker.state = "closed"
       /\ breaker.last_failure_time = cb_call.before.last_failure_time

\* C26's case: the body raised another exception while the breaker was
\* half-open with three failures.
C26_Witness ==
    /\ ExitedHalfOpen("other")
    /\ cb_call.before.failure_count = 3
    /\ cb_call.raised = "body"
    /\ breaker.state = "closed"

---------------------------------------------------------------------------
(***************************************************************************)
(* The used RERAs of csv_rera_to_owner_details (checked under SpecCV).     *)
(***************************************************************************)

\* The used list holds no RERA twice.
UsedOnce ==
    \A j, k \in 1..Len(used_reras) : used_reras[j] = used_reras[k] => j = k

\* A RERA of the used list is one whose exchange with the bot completed.
UsedAfterExchange ==
    \A k \in 1..Len(used_reras) : used_reras[k] \in cr.completed

\* C27: across the runs of get_owner_details, a RERA whose exchange with the
\* bot has completed is never sent to the bot again; a RERA is added to the
\* used list only after its exchange completed without an exception; and the
\* used list never contains the same RERA twice.
C27_AvoidsDuplicates ==
    /\ cr.again = {}
    /\ UsedAfterExchange
    /\ UsedOnce

---------------------------------------------------------------------------
(***************************************************************************)
(* fetch_page of fetch_all_listings (checked under SpecPF) and the run of  *)
(* the "Start Scraping" handler (checked under SpecSC).                    *)
(***************************************************************************)

\* The error text holds one of the five texts of the retry condition.
NamesNetworkError(error_str) ==
    \E k \in 1..Len(error_str) :
       error_str[k] \in {"NameResolutionError", "ConnectionError",
                         "Max retries exceeded", "timed out", "Connection reset"}

\* The last request of the call raised.
LastRequestRaised == pf.requests > 0 /\ Len(pf.errors) = pf.requests

\* C28: fetch_page performs at most max_retries + 1 requests for one page; it
\* retries only when the error text matches one of the network-error patterns,
\* waiting at least 2^retry_count seconds, and less than a second more, before
\* retry number retry_count + 1; on any other error, or once the retries are
\* exhausted, it returns a result with success = False and db_saved = False;
\* it does not raise.
C28_Retries ==
    /\ pf.requests <= pf.max_retries + 1
    /\ Len(pf.waits) <= pf.max_retries
    /\ \A k \in 1..Len(pf.waits) :
         /\ NamesNetworkError(pf.errors[k])
         /\ pf.waits[k] >= 10 * (2 ^ (k - 1))
         /\ pf.waits[k] < 10 * (2 ^ (k - 1)) + 10
    /\ pf.pc \in {"idle", "request", "sleep", "returned"}
    /\ (LastRequestRaised
        /\ \/ ~NamesNetworkError(pf.errors[pf.requests])
           \/ pf.requests = pf.max_retries + 1)
       => /\ pf.pc = "returned"
          /\ ~pf.result.success
          /\ ~pf.result.db_saved
    /\ pf.pc = "returned" => (pf.result.success <=> ~LastRequestRaised)

\* C28's case: with max_retries = 2 three requests ended in network errors,
\* the waits between them were at least one and two seconds, and the call
\* returned a failure.
C28_Witness ==
    /\ pf.pc = "returned"
    /\ pf.max_retries = 2
    /\ pf.requests = 3
    /\ pf.waits = <<10, 29>>
    /\ Len(pf.errors) = 3
    /\ NamesNetworkError(pf.errors[3])
    /\ ~pf.result.success
    /\ pf.result.retries = 2

\* The first page was fetched and holds all the listings there are.
OnlyOnePage ==
    /\ sc.pc # "idle"
    /\ sc.first.success
    /\ 0 < sc.first.total_count
    /\ sc.first.total_count <= sc.limit

\* C29: when the first page is fetched successfully and the total is exactly
\* one page, the run is done after that page: no worker pool is started, and
\* the run reaches its final report with Completed Pages = 1 and Failed
\* Pages = 0 without an error.
C29_OnePageRun ==
    OnlyOnePage
    => /\ ~sc.pool
       /\ sc.pc \in {"report", "done"}
       /\ sc.error = "none"
       /\ sc.pc = "done" => sc.report = [completed |-> 1, failed |-> 0]

=============================================================================
